---- MODULE Spec2Model ----
(***************************************************************************)
(* Markdown to Confluence storage conversion                               *)
(* (convertMarkdownToConfluenceStorage and processMarkdownTable).          *)
(*                                                                         *)
(* A text is a sequence of characters, each character a one-element        *)
(* string; the six typographic code points the normalizer mentions are     *)
(* written as named characters ("U+2013", ...).  A fragment of htmlLines   *)
(* is a text as well, tags spelled out character by character, so that     *)
(* the regular expressions of the source run on exactly what the program   *)
(* runs them on.  Indices of lines are 0-based as in the source; TLA+      *)
(* sequences are 1-based, hence the k + 1 in LineAt.                       *)
(***************************************************************************)
EXTENDS Integers, Sequences, FiniteSets, TLC

\* markdown      the argument of convertMarkdownToConfluenceStorage
\* pc            where the call is: "start" before the replace chain, "scan"
\*               in the scanner's loop, "table" in processMarkdownTable's row
\*               loop, "done" after the return, "error" after an exception
\* result        the local result: the normalized text, at the end the output
\* lines, i, inList, htmlLines
\*               the scanner's locals of the same names
\* startIndex, currentIndex, headers, dataRows
\*               processMarkdownTable's parameter and locals of the same names
\* trace         history: one event per line read, see Event
\* other         a second call of the converter that is not running at the
\*               moment: its parameter, locals, position and history
\* calls         the calls of the page operations (readConfluencePage,
\*               updateConfluencePage, createConfluencePage) in progress:
\*               parameters, locals, position, requests issued and outcome
\* store         the remote page store: the page it holds and the number of
\*               pages created in it
\* tally         history: how many page operations were called, how many
\*               updates reported success, how many requests failed for a
\*               reason of their own, how many conversions were started
\*               after the first ones, whether two conversions overlapped
VARIABLES markdown, pc, result, lines, i, inList, htmlLines,
          startIndex, currentIndex, headers, dataRows, trace,
          other, calls, store, tally

\* The state of one call of the converter.
conversion == <<markdown, pc, result, lines, i, inList, htmlLines,
                startIndex, currentIndex, headers, dataRows, trace>>

\* What a step of the running conversion cannot reach: the other call's
\* locals, the page operations and the remote store.
world == <<other, calls, store, tally>>

vars == <<conversion, world>>

-----------------------------------------------------------------------------
(* Characters *)

EnDash == "U+2013"
EmDash == "U+2014"
LeftDoubleQuote == "U+201C"
RightDoubleQuote == "U+201D"
LeftSingleQuote == "U+2018"
RightSingleQuote == "U+2019"
NewLine == "\n"

\* What JavaScript's \s and String.prototype.trim treat as white space,
\* restricted to the characters of the model's alphabet.
WhiteSpace == {" ", "\t"}

-----------------------------------------------------------------------------
(* Text primitives of the JavaScript runtime *)

RECURSIVE Concat(_)
\* Array.prototype.join(""): the concatenation of a sequence of texts,
\* computed by halves.
Concat(ts) ==
    IF Len(ts) = 0 THEN <<>>
    ELSE IF Len(ts) = 1 THEN ts[1]
    ELSE LET m == Len(ts) \div 2
         IN  Concat(SubSeq(ts, 1, m)) \o Concat(SubSeq(ts, m + 1, Len(ts)))

\* The least element of a non-empty set of numbers.
Least(P) == CHOOSE k \in P : \A q \in P : k <= q

\* str.substring(n): the text from 0-based position n on.
DropFirst(s, n) == IF n >= Len(s) THEN <<>> ELSE SubSeq(s, n + 1, Len(s))

\* The positions of s that hold no white space.
Inked(s) == {k \in 1..Len(s) : s[k] \notin WhiteSpace}

TrimStart(s) == IF Inked(s) = {} THEN <<>> ELSE DropFirst(s, Least(Inked(s)) - 1)

TrimEnd(s) ==
    IF Inked(s) = {} THEN <<>>
    ELSE SubSeq(s, 1, CHOOSE k \in Inked(s) : \A q \in Inked(s) : q <= k)

\* String.prototype.trim
Trim(s) == TrimEnd(TrimStart(s))

\* String.prototype.includes for a single character
Includes(s, c) == \E k \in 1..Len(s) : s[k] = c

\* String.prototype.startsWith
StartsWith(s, p) == Len(s) >= Len(p) /\ SubSeq(s, 1, Len(p)) = p

\* String.prototype.split on a one-character separator: the pieces between
\* consecutive separators, the start and the end of the text.  Always at
\* least one piece, the empty text gives one empty piece.
Split(s, c) ==
    LET at == {k \in 1..Len(s) : s[k] = c}
        n == Cardinality(at)
        cut(j) == IF j = 0 THEN 0
                  ELSE IF j = n + 1 THEN Len(s) + 1
                  ELSE CHOOSE k \in at : Cardinality({q \in at : q < k}) = j - 1
    IN  [j \in 1..(n + 1) |-> SubSeq(s, cut(j - 1) + 1, cut(j) - 1)]

\* str.replace(/c/g, to) for a one-character pattern c and a text to.
ReplaceChar(s, c, to) ==
    Concat([k \in 1..Len(s) |-> IF s[k] = c THEN to ELSE <<s[k]>>])

\* The length of the longest prefix of s made of characters of set S.
RunLength(s, S) ==
    LET stop == {k \in 1..Len(s) : s[k] \notin S}
    IN  IF stop = {} THEN Len(s) ELSE Least(stop) - 1

\* The length of the longest prefix of s free of character c.
RunUntil(s, c) ==
    LET stop == {k \in 1..Len(s) : s[k] = c}
    IN  IF stop = {} THEN Len(s) ELSE Least(stop) - 1

-----------------------------------------------------------------------------
(* Line Normalizer: the replace chain at the head of the converter *)

\* Normalize with the ampersand written as a character entity.
NormalizeToEntity(s) ==
    ReplaceChar(ReplaceChar(ReplaceChar(s, EnDash, <<"-">>), EmDash, <<"-">>),
                "&", <<"&", "a", "m", "p", ";">>)

\* The seven global replacements, in source order.  The third to sixth
\* patterns of the source are the ASCII quotation mark and the ASCII
\* apostrophe, each replaced by itself.
Normalize(s) ==
    LET r1 == ReplaceChar(s, EnDash, <<"-">>)
        r2 == ReplaceChar(r1, EmDash, <<"-">>)
        r3 == ReplaceChar(r2, "\"", <<"\"">>)
        r4 == ReplaceChar(r3, "\"", <<"\"">>)
        r5 == ReplaceChar(r4, "'", <<"'">>)
        r6 == ReplaceChar(r5, "'", <<"'">>)
    IN  ReplaceChar(r6, "&", <<"a", "n", "d">>)

-----------------------------------------------------------------------------
(* Inline Formatter: the two replace calls applied to emitted text *)

\* s begins with d asterisks.
IsStars(s, d) == Len(s) >= d /\ \A k \in 1..d : s[k] = "*"

\* /\*{d}([^*]+)\*{d}/ matches at the head of s.  After d asterisks the class
\* [^*]+ takes the whole run of non-asterisk characters (giving back any of
\* it leaves a non-asterisk where the closing asterisks must be), so the
\* match succeeds exactly when that run is non-empty and d asterisks follow.
SpanAt(s, d) ==
    LET body == DropFirst(s, d)
        n == RunUntil(body, "*")
    IN  IsStars(s, d) /\ n >= 1 /\ IsStars(DropFirst(body, n), d)

RECURSIVE ReplaceSpans(_, _, _, _)
\* str.replace(/\*{d}([^*]+)\*{d}/g, open $1 close): the leftmost position
\* where the pattern matches is replaced, the text before it is copied, and
\* the scan resumes after the match.
ReplaceSpans(s, d, open, close) ==
    LET found == {k \in 1..Len(s) : SpanAt(DropFirst(s, k - 1), d)}
    IN  IF found = {} THEN s
        ELSE LET k == Least(found)
                 body == DropFirst(s, k - 1 + d)
                 n == RunUntil(body, "*")
             IN  SubSeq(s, 1, k - 1) \o open \o SubSeq(body, 1, n) \o close
                 \o ReplaceSpans(DropFirst(body, n + d), d, open, close)

StrongOpen == <<"<", "s", "t", "r", "o", "n", "g", ">">>
StrongClose == <<"<", "/", "s", "t", "r", "o", "n", "g", ">">>
EmOpen == <<"<", "e", "m", ">">>
EmClose == <<"<", "/", "e", "m", ">">>

\* .replace(/\*\*([^*]+)\*\*/g, "<strong>$1</strong>")
FormatBold(s) == ReplaceSpans(s, 2, StrongOpen, StrongClose)

\* .replace(/\*([^*]+)\*/g, "<em>$1</em>")
FormatItalic(s) == ReplaceSpans(s, 1, EmOpen, EmClose)

\* InlineFormat with the two replace calls in the other order.
InlineFormatItalicFirst(s) == FormatBold(FormatItalic(s))

\* Bold first, italic on its result.
InlineFormat(s) == FormatItalic(FormatBold(s))

-----------------------------------------------------------------------------
(* Line predicates of the block scanner *)

SkipSpace(s) == DropFirst(s, RunLength(s, WhiteSpace))

\* IsHeader for a pattern without the upper bound, /^#+\s/.
IsHeaderAnyLevel(line) ==
    LET h == RunLength(line, {"#"})
    IN  h >= 1 /\ Len(line) > h /\ line[h + 1] \in WhiteSpace

\* IsHeader for the pattern /^#{1,3}\s*/, as in the replace: the white space
\* after the '#' is optional.
IsHeaderWithoutSpace(line) ==
    LET h == RunLength(line, {"#"})
    IN  h \in 1..3 /\ (Len(line) > h => line[h + 1] \in WhiteSpace)

\* line.match(/^#{1,3}\s/): one to three '#' and then a white-space
\* character.  The character after the matched '#' is not a '#', so the
\* matched '#' are the whole leading run.
IsHeader(line) ==
    LET h == RunLength(line, {"#"})
    IN  h \in 1..3 /\ Len(line) > h /\ line[h + 1] \in WhiteSpace

\* line.replace(/^#{1,3}\s*/, ""): up to three leading '#' and all white
\* space after them are removed.
HeaderText(line) ==
    LET h == RunLength(line, {"#"})
        n == IF h > 3 THEN 3 ELSE h
    IN  IF n = 0 THEN line ELSE SkipSpace(DropFirst(line, n))

\* (line.match(/^#+/) || [""])[0].length
HeaderLevel(line) == RunLength(line, {"#"})

\* line.startsWith("- ")
IsListItem(line) == StartsWith(line, <<"-", " ">>)

\* line.match(/^\s*\|?\s*-+\s*\|/): optional pipe, one or more dashes and a
\* pipe, white space allowed between them; the rest of the line is free.
MatchesDashPipe(line) ==
    LET a == SkipSpace(line)
        b == SkipSpace(IF a # <<>> /\ Head(a) = "|" THEN Tail(a) ELSE a)
        n == RunLength(b, {"-"})
        c == SkipSpace(DropFirst(b, n))
    IN  n >= 1 /\ c # <<>> /\ Head(c) = "|"

\* The condition of the table branch.
IsTableCandidate(line) == Includes(line, "|") /\ ~MatchesDashPipe(line)

RECURSIVE SeparatorCells(_)
\* [\s]*[-:]+[\s]*(\|[\s]*[-:]+[\s]*)*\|?$ : a cell of dashes and colons,
\* then either the end, a last pipe and the end, or a pipe and further cells.
SeparatorCells(s) ==
    LET a == SkipSpace(s)
        n == RunLength(a, {"-", ":"})
        c == SkipSpace(DropFirst(a, n))
    IN  /\ n >= 1
        /\ \/ c = <<>>
           \/ c = <<"|">>
           \/ c # <<>> /\ Head(c) = "|" /\ SeparatorCells(Tail(c))

\* nextLine && nextLine.match(/^\|?[\s]*[-:]+[\s]*(\|[\s]*[-:]+[\s]*)*\|?$/)
IsSeparatorRow(s) ==
    /\ s # <<>>
    /\ SeparatorCells(IF Head(s) = "|" THEN Tail(s) ELSE s)

\* PipeText with the inline formatter applied, as in the paragraph branch.
PipeTextFormatted(line) == InlineFormat(Trim(ReplaceChar(line, "|", <<" ", "|", " ">>)))

\* line.replace(/\|/g, " | ").trim()
PipeText(line) == Trim(ReplaceChar(line, "|", <<" ", "|", " ">>))

-----------------------------------------------------------------------------
(* Table sub-parser helpers *)

\* SplitCells with every empty cell dropped, the interior ones too.
SplitCellsNoEmpty(line) ==
    LET pieces == Split(line, "|")
        cells == [k \in 1..Len(pieces) |-> Trim(pieces[k])]
    IN  SelectSeq(cells, LAMBDA c : c # <<>>)

\* split("|"), trim of every piece, then the slice that drops one empty
\* first piece and one empty last piece.
SplitCells(line) ==
    LET pieces == Split(line, "|")
        cells == [k \in 1..Len(pieces) |-> Trim(pieces[k])]
        startIdx == IF cells[1] = <<>> THEN 1 ELSE 0
        endIdx == IF cells[Len(cells)] = <<>> THEN Len(cells) - 1 ELSE Len(cells)
    IN  SubSeq(cells, startIdx + 1, endIdx)

\* OpenTag with an attribute.
OpenTagWithAttribute(name) == <<"<">> \o name \o <<" ", "i", "d", "=", "a", ">">>

\* <name> and </name> for a tag name given as a text.
OpenTag(name) == <<"<">> \o name \o <<">">>
CloseTag(name) == <<"<", "/">> \o name \o <<">">>

\* <name> content </name>
Element(name, content) == OpenTag(name) \o content \o CloseTag(name)

UlOpen == OpenTag(<<"u", "l">>)
UlClose == CloseTag(<<"u", "l">>)

Digits == <<"0", "1", "2", "3", "4", "5", "6", "7", "8", "9">>

RECURSIVE NumberText(_)
\* The decimal text of a natural number, as a template literal prints it.
NumberText(n) ==
    IF n < 10 THEN <<Digits[n + 1]>>
    ELSE NumberText(n \div 10) \o <<Digits[(n % 10) + 1]>>

\* `<h${level}>${formatted}</h${level}>`
HeaderElement(level, formatted) == Element(<<"h">> \o NumberText(level), formatted)

\* The cell treatment of the table generator: the normalizer's replace chain
\* again, then the inline formatter.
CellText(cell) == InlineFormat(Normalize(cell))

\* TableRowHtml with the cells from right to left.
TableRowHtmlReversed(cells, cellTag) ==
    OpenTag(<<"t", "r">>)
    \o Concat([k \in 1..Len(cells) |->
                  Element(cellTag, CellText(cells[Len(cells) + 1 - k]))])
    \o CloseTag(<<"t", "r">>)

\* "<tr>" + one element per cell + "</tr>"
TableRowHtml(cells, cellTag) ==
    OpenTag(<<"t", "r">>)
    \o Concat([k \in 1..Len(cells) |-> Element(cellTag, CellText(cells[k]))])
    \o CloseTag(<<"t", "r">>)

\* TableHtml with every data row made as long as the header row: cut after
\* the last header column, filled up with empty cells.
TableHtmlSquare(hs, rows) ==
    LET fit(row) == [j \in 1..Len(hs) |-> IF j <= Len(row) THEN row[j] ELSE <<>>]
    IN  OpenTag(<<"t", "a", "b", "l", "e">>) \o OpenTag(<<"t", "b", "o", "d", "y">>)
        \o (IF Len(hs) > 0 THEN TableRowHtml(hs, <<"t", "h">>) ELSE <<>>)
        \o Concat([r \in 1..Len(rows) |-> TableRowHtml(fit(rows[r]), <<"t", "d">>)])
        \o CloseTag(<<"t", "b", "o", "d", "y">>) \o CloseTag(<<"t", "a", "b", "l", "e">>)

\* TableHtml without the test that there are header cells.
TableHtmlHeaderAlways(hs, rows) ==
    OpenTag(<<"t", "a", "b", "l", "e">>) \o OpenTag(<<"t", "b", "o", "d", "y">>)
    \o TableRowHtml(hs, <<"t", "h">>)
    \o Concat([r \in 1..Len(rows) |-> TableRowHtml(rows[r], <<"t", "d">>)])
    \o CloseTag(<<"t", "b", "o", "d", "y">>) \o CloseTag(<<"t", "a", "b", "l", "e">>)

\* The markup generated from the header cells and the collected data rows.
TableHtml(hs, rows) ==
    OpenTag(<<"t", "a", "b", "l", "e">>) \o OpenTag(<<"t", "b", "o", "d", "y">>)
    \o (IF Len(hs) > 0 THEN TableRowHtml(hs, <<"t", "h">>) ELSE <<>>)
    \o Concat([r \in 1..Len(rows) |-> TableRowHtml(rows[r], <<"t", "d">>)])
    \o CloseTag(<<"t", "b", "o", "d", "y">>) \o CloseTag(<<"t", "a", "b", "l", "e">>)

\* LastIndex as the index of the header line: nothing is skipped.
LastIndexIsHeader(ci) == ci - 3

\* LastIndex off by one: the cursor itself, the first line not consumed.
LastIndexIsCursor(ci) == ci

\* LastIndex one short: the line before the last one consumed.
LastIndexBeforeLast(ci) == ci - 2

\* The index processMarkdownTable returns, from its cursor after the loop.
LastIndex(ci) == ci - 1

-----------------------------------------------------------------------------
(* Final cleanup *)

RECURSIVE ReplaceText(_, _, _)
\* str.replace(/pat/g, to) for a literal, non-empty pattern.
ReplaceText(s, pat, to) ==
    LET found == {k \in 1..Len(s) : StartsWith(DropFirst(s, k - 1), pat)}
    IN  IF found = {} THEN s
        ELSE LET k == Least(found)
             IN  SubSeq(s, 1, k - 1) \o to
                 \o ReplaceText(DropFirst(s, k - 1 + Len(pat)), pat, to)

POpen == OpenTag(<<"p">>)
PClose == CloseTag(<<"p">>)

\* Cleanup with the slash of the second pattern missing: a leading <p> is
\* removed.
CleanupStrippingOpen(s) ==
    LET r1 == ReplaceText(s, PClose \o POpen, PClose \o POpen)
        r2 == IF StartsWith(r1, POpen) THEN DropFirst(r1, Len(POpen)) ELSE r1
    IN  IF Len(r2) >= Len(POpen) /\ SubSeq(r2, Len(r2) - Len(POpen) + 1, Len(r2)) = POpen
        THEN SubSeq(r2, 1, Len(r2) - Len(POpen))
        ELSE r2

\* The three replace calls applied to the joined fragments.
Cleanup(s) ==
    LET r1 == ReplaceText(s, PClose \o POpen, PClose \o POpen)
        r2 == IF StartsWith(r1, PClose) THEN DropFirst(r1, Len(PClose)) ELSE r1
    IN  IF Len(r2) >= Len(POpen) /\ SubSeq(r2, Len(r2) - Len(POpen) + 1, Len(r2)) = POpen
        THEN SubSeq(r2, 1, Len(r2) - Len(POpen))
        ELSE r2

-----------------------------------------------------------------------------
(* Array reads *)

\* What reading past an array gives, and what calling a method on it raises.
Undefined == <<"undefined">>
TypeError == <<"TypeError">>

\* lines[k]
LineAt(ls, k) == IF k \in 0..(Len(ls) - 1) THEN ls[k + 1] ELSE Undefined

\* lines[k].trim()
TrimmedLineAt(ls, k) ==
    IF LineAt(ls, k) = Undefined THEN TypeError ELSE Trim(LineAt(ls, k))

\* NextLine without the test that a next line exists.
NextLineUnchecked(ls, k) == TrimmedLineAt(ls, k + 1)

\* i + 1 < lines.length ? lines[i + 1].trim() : ""
NextLine(ls, k) == IF k + 1 < Len(ls) THEN TrimmedLineAt(ls, k + 1) ELSE <<>>

\* Classify with the table test moved before the header and list tests.
ClassifyTableFirst(line) ==
    IF line = <<>> THEN "blank"
    ELSE IF IsTableCandidate(line) THEN "table"
    ELSE IF IsHeader(line) THEN "header"
    ELSE IF IsListItem(line) THEN "item"
    ELSE "paragraph"

\* The branch of the scanner's loop body a trimmed line takes: the first
\* if-statement, in source order, whose condition holds.
Classify(line) ==
    IF line = <<>> THEN "blank"
    ELSE IF IsHeader(line) THEN "header"
    ELSE IF IsListItem(line) THEN "item"
    ELSE IF IsTableCandidate(line) THEN "table"
    ELSE "paragraph"

\* CloseList that clears the flag and pushes nothing.
CloseListSilent(h, open) == h

\* if (inList) { htmlLines.push("</ul>"); inList = false; }
CloseList(h, open) == IF open THEN Append(h, UlClose) ELSE h

-----------------------------------------------------------------------------
(* Inputs *)

\* The longest input made of block lines, in lines.
MaxLines == 4

\* The longest input made of any lines, in lines.
MaxTextLines == 2

\* The longest input made of any characters of Alphabet, in characters.
MaxChars == 3

\* One line of each block kind the scanner distinguishes:
\*   ''               a blank line
\*   '## a|b'         a level-2 header that contains a pipe
\*   ' - a|b '        a list item that contains a pipe, inside white space
\*   '| a||*b*|'      outer pipes, a cell to trim, an empty interior cell
\*                    and an italic span
\*   '|'              a pipe alone
\*   '-|-'            a separator row of dashes
\*   'x'              plain text
BlockLines == {
    <<>>,
    <<"#", "#", " ", "a", "|", "b">>,
    <<" ", "-", " ", "a", "|", "b", " ">>,
    <<"|", " ", "a", "|", "|", "*", "b", "*", "|">>,
    <<"|">>,
    <<"-", "|", "-">>,
    <<"x">>
}

\* Lines for the normalizer, the inline formatter and the line patterns:
\*   '# *T*'          a level-1 header with an italic span
\*   '### a'          a level-3 header
\*   '#### a'         four '#'
\*   '- a'            a list item
\*   '-'              a dash alone, which is what trimming leaves of '- '
\*   ':-|-:'          a separator row with colons
\*   '-|x'            a dash, a pipe and text
\*   '**a*b*c**'      double asterisks around single ones
\*   '**a** b *c*'    a bold and an italic span
\*   'a&b'            an ampersand
\*   '{en dash}{em dash}{left double quote}{right double quote}{left single quote}{right single quote}"'' the dashes and quotation marks the normalizer names
\*   'a|'             text and a closing pipe
\*   'a | *b*'        padded pipe and an italic span, no outer pipes
TextLines == {
    <<"#", " ", "*", "T", "*">>,
    <<"#", "#", "#", " ", "a">>,
    <<"#", "#", "#", "#", " ", "a">>,
    <<"-", " ", "a">>,
    <<"-">>,
    <<":", "-", "|", "-", ":">>,
    <<"-", "|", "x">>,
    <<"*", "*", "a", "*", "b", "*", "c", "*", "*">>,
    <<"*", "*", "a", "*", "*", " ", "b", " ", "*", "c", "*">>,
    <<"a", "&", "b">>,
    <<EnDash, EmDash, LeftDoubleQuote, RightDoubleQuote, LeftSingleQuote, RightSingleQuote, "\"", "'">>,
    <<"a", "|">>,
    <<"a", " ", "|", " ", "*", "b", "*">>
}

RECURSIVE JoinLines(_)
\* The text whose split on "\n" is the sequence of lines ls.
JoinLines(ls) ==
    IF Len(ls) <= 1 THEN Concat(ls)
    ELSE Head(ls) \o <<NewLine>> \o JoinLines(Tail(ls))

\* The texts of one to n lines, each line from set L.
Texts(L, n) == { JoinLines(ls) : ls \in UNION { [1..k -> L] : k \in 1..n } }

\* The characters the line patterns tell apart, a letter and the line break.
Alphabet == {"-", "|", ":", " ", "a", "*", "#", NewLine}

\* Every text of at most n characters of Alphabet.
Strings(n) == UNION { [1..k -> Alphabet] : k \in 0..n }

\* The inputs of convertMarkdownToConfluenceStorage that are explored.
Inputs ==
    Texts(BlockLines, MaxLines)
    \cup Texts(BlockLines \cup TextLines, MaxTextLines)
    \cup Strings(MaxChars)

-----------------------------------------------------------------------------
(* What lies outside one conversion *)

\* The state of a converter call that is not the running one, for input md:
\* the call has been made and has not taken a step.
Suspended(md) ==
    [markdown |-> md, pc |-> "start", result |-> <<>>, lines |-> <<>>, i |-> 0,
     inList |-> FALSE, htmlLines |-> <<>>, startIndex |-> 0, currentIndex |-> 0,
     headers |-> <<>>, dataRows |-> <<>>, trace |-> <<>>]

\* No second call of the converter.
Absent == [Suspended(<<>>) EXCEPT !.pc = "absent"]

\* The page the remote store holds when the model starts: id 1 in space 7,
\* at version 1.
InitialPage ==
    [id |-> <<"1">>, title |-> <<"T">>, spaceId |-> <<"7">>, version |-> 1,
     body |-> <<>>]

\* A page value for "no page fetched yet".
NoPage == [id |-> <<>>, title |-> <<>>, spaceId |-> <<>>, version |-> 0, body |-> <<>>]

\* The remote store: the page and the number of pages created since.
InitialStore == [page |-> InitialPage, created |-> 0]

\* A request body for "nothing to send yet".
NoRequest ==
    [title |-> <<>>, spaceId |-> <<>>, spaceIdType |-> "string", version |-> 0,
     body |-> <<>>]

\* What a call has thrown or returned while it is still running: nothing.
NoOutcome ==
    [kind |-> "none", class |-> "none", status |-> "none", code |-> "none",
     message |-> "none", inner |-> "none", cause |-> "none", version |-> 0]

\* A slot for a call of a page operation, with no call in it.
IdleCall ==
    [op |-> "none", pc |-> "idle",
     pageId |-> <<>>, spaceId |-> <<>>, spaceKey |-> <<>>, title |-> <<>>,
     content |-> <<>>,
     resolvedSpaceId |-> <<>>, lookupKey |-> <<>>, lookupFor |-> "none",
     firstError |-> "none",
     existingPage |-> NoPage, request |-> NoRequest,
     log |-> <<>>, outcome |-> NoOutcome]

\* The page operations may run as two calls at a time.
CallIds == {1, 2}

\* No page operation has been called, no further conversion was started and
\* no two conversions have been under way at the same time.
NoTally ==
    [invoked |-> 0, succeeded |-> 0, failed |-> 0, converted |-> 0, overlapped |-> FALSE]

\* The page operations and the store before any call.
ClientAtRest ==
    /\ calls = [c \in CallIds |-> IdleCall]
    /\ store = InitialStore
    /\ tally = NoTally

-----------------------------------------------------------------------------
(* The converter as a state machine *)

\* trace: what the block scanner and the table sub-parser did with each line
\* they read, in order: the line's index, the branch taken ("blank", "header",
\* "item", "table", "pipeText", "paragraph" for the scanner; "separator" and
\* "row" for the sub-parser) and the length of htmlLines after the step.
Event(idx, kind, h) == [idx |-> idx, kind |-> kind, frag |-> Len(h)]

\* The state of the running call when it is made, for an input of set S.
CallWith(S) ==
    /\ markdown \in S
    /\ pc = "start"
    /\ result = <<>>
    /\ lines = <<>>
    /\ i = 0
    /\ inList = FALSE
    /\ htmlLines = <<>>
    /\ startIndex = 0
    /\ currentIndex = 0
    /\ headers = <<>>
    /\ dataRows = <<>>
    /\ trace = <<>>

\* One call of the converter and nothing else.
InitWith(S) ==
    /\ CallWith(S)
    /\ other = Absent
    /\ ClientAtRest

Init == InitWith(Inputs)

tableLocals == <<startIndex, currentIndex, headers, dataRows>>

\* Begin with the list flag kept from whatever ran before, as a flag declared
\* outside the function would be.
BeginKeepingList ==
    /\ pc = "start"
    /\ result' = Normalize(markdown)
    /\ lines' = Split(Normalize(markdown), NewLine)
    /\ htmlLines' = <<>>
    /\ i' = 0
    /\ pc' = "scan"
    /\ UNCHANGED <<world, markdown, inList, tableLocals, trace>>

\* Begin without the replace chain: the lines are those of the input as given.
BeginUnnormalized ==
    /\ pc = "start"
    /\ result' = markdown
    /\ lines' = Split(markdown, NewLine)
    /\ htmlLines' = <<>>
    /\ inList' = FALSE
    /\ i' = 0
    /\ pc' = "scan"
    /\ UNCHANGED <<world, markdown, tableLocals, trace>>

\* The replace chain, the split into lines and the scanner's initial state.
Begin ==
    /\ pc = "start"
    /\ result' = Normalize(markdown)
    /\ lines' = Split(Normalize(markdown), NewLine)
    /\ htmlLines' = <<>>
    /\ inList' = FALSE
    /\ i' = 0
    /\ pc' = "scan"
    /\ UNCHANGED <<world, markdown, tableLocals, trace>>

\* const line = lines[i].trim(), inside the loop
CurrentLine == TrimmedLineAt(lines, i)

\* The loop's condition holds and the body takes branch kind.
AtBranch(kind) ==
    /\ pc = "scan"
    /\ i < Len(lines)
    /\ Classify(CurrentLine) = kind

\* An uncaught exception ends the call.
Raise ==
    /\ pc' = "error"
    /\ UNCHANGED <<world, markdown, result, lines, i, inList, htmlLines, tableLocals, trace>>

\* One iteration that pushes fragment frag after closing the list if
\* closes, and leaves list mode as open.
Emit(kind, closes, frag, open) ==
    LET pushed == Append(IF closes THEN CloseList(htmlLines, inList) ELSE htmlLines, frag)
    IN  /\ htmlLines' = pushed
        /\ inList' = open
        /\ i' = i + 1
        /\ trace' = Append(trace, Event(i, kind, pushed))
        /\ UNCHANGED <<world, markdown, pc, result, lines, tableLocals>>

\* ScanBlank without the push of the empty fragment.
ScanBlankDropped ==
    /\ AtBranch("blank")
    /\ htmlLines' = CloseList(htmlLines, inList)
    /\ inList' = FALSE
    /\ i' = i + 1
    /\ trace' = Append(trace, Event(i, "blank", CloseList(htmlLines, inList)))
    /\ UNCHANGED <<world, markdown, pc, result, lines, tableLocals>>

\* ScanBlank with a line break pushed for the blank line.
ScanBlankPushingBreak ==
    /\ AtBranch("blank")
    /\ Emit("blank", TRUE, <<"<", "b", "r", "/", ">">>, FALSE)

ScanBlank ==
    /\ AtBranch("blank")
    /\ Emit("blank", TRUE, <<>>, FALSE)

ScanHeader ==
    /\ AtBranch("header")
    /\ Emit("header", TRUE,
            HeaderElement(HeaderLevel(CurrentLine), InlineFormat(HeaderText(CurrentLine))),
            FALSE)

\* ScanListItem without the test of the list flag: every item opens a list.
ScanListItemReopening ==
    /\ AtBranch("item")
    /\ LET pushed == Append(Append(htmlLines, UlOpen),
                            Element(<<"l", "i">>, InlineFormat(DropFirst(CurrentLine, 2))))
       IN  /\ htmlLines' = pushed
           /\ trace' = Append(trace, Event(i, "item", pushed))
    /\ inList' = TRUE
    /\ i' = i + 1
    /\ UNCHANGED <<world, markdown, pc, result, lines, tableLocals>>

ScanListItem ==
    /\ AtBranch("item")
    /\ LET pushed == Append(IF inList THEN htmlLines ELSE Append(htmlLines, UlOpen),
                            Element(<<"l", "i">>, InlineFormat(DropFirst(CurrentLine, 2))))
       IN  /\ htmlLines' = pushed
           /\ trace' = Append(trace, Event(i, "item", pushed))
    /\ inList' = TRUE
    /\ i' = i + 1
    /\ UNCHANGED <<world, markdown, pc, result, lines, tableLocals>>

\* ScanTable without the step over the line after the header: the row loop
\* starts at that line.
ScanTableKeepingSeparator ==
    /\ AtBranch("table")
    /\ IsSeparatorRow(NextLine(lines, i))
    /\ htmlLines' = CloseList(htmlLines, inList)
    /\ inList' = FALSE
    /\ startIndex' = i
    /\ headers' = SplitCells(TrimmedLineAt(lines, i))
    /\ currentIndex' = i + 1
    /\ dataRows' = <<>>
    /\ pc' = "table"
    /\ trace' = Append(trace, Event(i, "table", CloseList(htmlLines, inList)))
    /\ UNCHANGED <<world, markdown, result, lines, i>>

\* The table branch when the lookahead finds a separator row: the list is
\* closed and processMarkdownTable is entered; it reads the header line and
\* steps over the next line without looking at it.
ScanTable ==
    /\ AtBranch("table")
    /\ IsSeparatorRow(NextLine(lines, i))
    /\ IF TrimmedLineAt(lines, i) = TypeError
       THEN Raise
       ELSE /\ htmlLines' = CloseList(htmlLines, inList)
            /\ inList' = FALSE
            /\ startIndex' = i
            /\ headers' = SplitCells(TrimmedLineAt(lines, i))
            /\ currentIndex' = i + 2
            /\ dataRows' = <<>>
            /\ pc' = "table"
            /\ trace' = trace \o <<Event(i, "table", CloseList(htmlLines, inList)),
                                   Event(i + 1, "separator", CloseList(htmlLines, inList))>>
            /\ UNCHANGED <<world, markdown, result, lines, i>>

\* The table branch when the lookahead finds no separator row.
ScanPipeText ==
    /\ AtBranch("table")
    /\ ~IsSeparatorRow(NextLine(lines, i))
    /\ IF NextLine(lines, i) = TypeError
       THEN Raise
       ELSE Emit("pipeText", TRUE, Element(<<"p">>, PipeText(CurrentLine)), FALSE)

ScanParagraph ==
    /\ AtBranch("paragraph")
    /\ Emit("paragraph", TRUE, Element(<<"p">>, InlineFormat(CurrentLine)), FALSE)

\* RowLoopEnds when a header line or a list item ends the loop as well.
RowLoopEndsAtBlock ==
    \/ ~(currentIndex < Len(lines))
    \/ TrimmedLineAt(lines, currentIndex) = <<>>
    \/ ~Includes(TrimmedLineAt(lines, currentIndex), "|")
    \/ Classify(TrimmedLineAt(lines, currentIndex)) \in {"header", "item"}

\* The line the sub-parser's while loop is at ends the loop.
RowLoopEnds ==
    \/ ~(currentIndex < Len(lines))
    \/ TrimmedLineAt(lines, currentIndex) = <<>>
    \/ ~Includes(TrimmedLineAt(lines, currentIndex), "|")

\* TableRow without the test that the line has cells: every line is pushed.
TableRowPushAlways ==
    /\ pc = "table"
    /\ ~RowLoopEnds
    /\ dataRows' = Append(dataRows, SplitCells(TrimmedLineAt(lines, currentIndex)))
    /\ currentIndex' = currentIndex + 1
    /\ trace' = Append(trace, Event(currentIndex, "row", htmlLines))
    /\ UNCHANGED <<world, markdown, pc, result, lines, i, inList, htmlLines, startIndex, headers>>

\* One iteration of the sub-parser's while loop.
TableRow ==
    /\ pc = "table"
    /\ ~RowLoopEnds
    /\ LET cells == SplitCells(TrimmedLineAt(lines, currentIndex))
       IN  dataRows' = IF Len(cells) > 0 THEN Append(dataRows, cells) ELSE dataRows
    /\ currentIndex' = currentIndex + 1
    /\ trace' = Append(trace, Event(currentIndex, "row", htmlLines))
    /\ UNCHANGED <<world, markdown, pc, result, lines, i, inList, htmlLines, startIndex, headers>>

\* The loop is left, the markup is generated and returned; the scanner
\* pushes it, sets its cursor to the returned index and continues, which
\* increments the cursor.
TableReturn ==
    /\ pc = "table"
    /\ RowLoopEnds
    /\ htmlLines' = Append(htmlLines, TableHtml(headers, dataRows))
    /\ i' = LastIndex(currentIndex) + 1
    /\ pc' = "scan"
    /\ startIndex' = 0
    /\ currentIndex' = 0
    /\ headers' = <<>>
    /\ dataRows' = <<>>
    /\ UNCHANGED <<world, markdown, result, lines, inList, trace>>

\* Finish as it would be without the statement that closes the remaining list.
FinishWithoutClose ==
    /\ pc = "scan"
    /\ ~(i < Len(lines))
    /\ htmlLines' = htmlLines
    /\ result' = Cleanup(Concat(htmlLines))
    /\ pc' = "done"
    /\ UNCHANGED <<world, markdown, lines, i, inList, startIndex, currentIndex, headers, dataRows, trace>>

\* After the loop: the list still open is closed, the fragments are joined
\* and cleaned up, and the result is returned.
Finish ==
    /\ pc = "scan"
    /\ ~(i < Len(lines))
    /\ htmlLines' = IF inList THEN Append(htmlLines, UlClose) ELSE htmlLines
    /\ result' = Cleanup(Concat(IF inList THEN Append(htmlLines, UlClose) ELSE htmlLines))
    /\ pc' = "done"
    /\ UNCHANGED <<world, markdown, lines, i, inList, tableLocals, trace>>

Next ==
    \/ Begin
    \/ ScanBlank
    \/ ScanHeader
    \/ ScanListItem
    \/ ScanTable
    \/ ScanPipeText
    \/ ScanParagraph
    \/ TableRow
    \/ TableReturn
    \/ Finish

Spec == Init /\ [][Next]_vars

-----------------------------------------------------------------------------
(* Reading the trace *)

ScannerKinds == {"blank", "header", "item", "table", "pipeText", "paragraph"}

\* The trimmed line an event is about.
LineOf(e) == Trim(lines[e.idx + 1])

\* The trimmed line after the one an event is about, "" past the end.
LineAfter(e) == IF e.idx + 1 < Len(lines) THEN Trim(lines[e.idx + 2]) ELSE <<>>

\* The fragment the scanner pushed for the line of a scanner event.
FragmentOf(e) == htmlLines[e.frag]

RECURSIVE CountFragments(_, _)
\* How many fragments of h are the text f.
CountFragments(h, f) ==
    IF h = <<>> THEN 0
    ELSE (IF Head(h) = f THEN 1 ELSE 0) + CountFragments(Tail(h), f)

-----------------------------------------------------------------------------
(* C1 *)

\* C1: when the conversion has returned, as many "<ul>" fragments as "</ul>"
\* fragments were emitted, and a list that was open after the last line was
\* closed by the end of the input: the last fragment is its "</ul>".
ListClosure ==
    pc = "done" =>
        /\ CountFragments(htmlLines, UlOpen) = CountFragments(htmlLines, UlClose)
        /\ inList => htmlLines # <<>> /\ htmlLines[Len(htmlLines)] = UlClose

\* A conversion has returned whose last line was a list item, after an
\* earlier list had been closed by a line that is no list item.
ListClosureWitness ==
    /\ pc = "done"
    /\ inList
    /\ CountFragments(htmlLines, UlOpen) = 2

-----------------------------------------------------------------------------
(* C2 *)

\* A trimmed line the sub-parser's row loop consumes.
IsPipeRow(line) == line # <<>> /\ Includes(line, "|")

\* C2: a table-candidate line followed by a separator row is handed to the
\* sub-parser, which reads the header, steps over the separator and consumes
\* rows for as long as the lines are non-blank and contain a pipe, no
\* further; the scanner resumes at the first line after that run.  Every
\* line is read once, in order, so no line of the region is classified or
\* emitted by the scanner again.
TableAtomicity ==
    /\ \A k \in 1..Len(trace) :
        LET e == trace[k] IN
        \* one reading per line, in input order
        /\ e.idx = k - 1
        \* a candidate goes to the sub-parser exactly on a separator row
        /\ e.kind = "table" => IsTableCandidate(LineOf(e)) /\ IsSeparatorRow(LineAfter(e))
        /\ e.kind = "pipeText" => ~IsSeparatorRow(LineAfter(e))
        \* the region: header, separator, rows
        /\ e.kind = "table" => k < Len(trace) /\ trace[k + 1].kind = "separator"
        /\ e.kind = "separator" => k > 1 /\ trace[k - 1].kind = "table"
        /\ e.kind = "row" =>
              /\ k > 1
              /\ trace[k - 1].kind \in {"separator", "row"}
              /\ IsPipeRow(LineOf(e))
        \* the run of rows is maximal
        /\ (e.kind \in {"separator", "row"} /\ (k < Len(trace) \/ pc # "table")) =>
              \/ k < Len(trace) /\ trace[k + 1].kind = "row"
              \/ ~IsPipeRow(LineAfter(e))
        \* the scanner never handles a line inside a region
        /\ (e.kind \in ScannerKinds /\ k > 1) => trace[k - 1].kind # "table"
    \* the scanner's cursor is at the first line not read yet
    /\ pc = "scan" => i = Len(trace)
    /\ pc = "table" => currentIndex = Len(trace)

\* A table with a row was consumed and the scanner went on with the line
\* after the region, which is blank or has no pipe.
TableAtomicityWitness ==
    \E k \in 2..Len(trace) :
        /\ trace[k - 1].kind = "row"
        /\ trace[k].kind \in ScannerKinds

-----------------------------------------------------------------------------
(* C3 *)

\* The text **a*b*c**
DoubleAroundSingle == <<"*", "*", "a", "*", "b", "*", "c", "*", "*">>

\* C3: the paragraph emitted for the line **a*b*c** is one bold span around
\* a*b*c, the inner asterisks literal, with no <em> tag.
InlinePrecedence ==
    \A k \in 1..Len(trace) :
        (trace[k].kind = "paragraph" /\ LineOf(trace[k]) = DoubleAroundSingle) =>
            FragmentOf(trace[k]) =
                Element(<<"p">>,
                        StrongOpen \o <<"a", "*", "b", "*", "c">> \o StrongClose)

-----------------------------------------------------------------------------
(* C4 *)

\* The first class, in the order blank, header, list item, table candidate,
\* paragraph, whose predicate a trimmed line satisfies.
FirstClass(line) ==
    CHOOSE c \in {"blank", "header", "item", "table", "paragraph"} :
        /\ c = "blank" <=> line = <<>>
        /\ c = "header" <=> line # <<>> /\ IsHeader(line)
        /\ c = "item" <=> line # <<>> /\ ~IsHeader(line) /\ IsListItem(line)
        /\ c = "table" <=>
              /\ line # <<>>
              /\ ~IsHeader(line)
              /\ ~IsListItem(line)
              /\ IsTableCandidate(line)

\* The markup a fragment opens with tells the branch that emitted it.
OpensWith(frag, prefix) == StartsWith(frag, prefix)

\* C4: every line the scanner classifies is handled by the branch of its
\* first class and by no other: the branch recorded for the line is that
\* class, and the fragment pushed for the line is that branch's markup.  So
\* a list item or header that contains a pipe and stands before a separator
\* row is emitted as <li> or <h.>, not as a table.
DispatchOrder ==
    \A k \in 1..Len(trace) :
        LET e == trace[k]
            c == FirstClass(LineOf(e))
        IN  e.kind \in ScannerKinds =>
              /\ c = "blank" <=> e.kind = "blank"
              /\ c = "header" <=> e.kind = "header"
              /\ c = "item" <=> e.kind = "item"
              /\ c = "table" <=> e.kind \in {"table", "pipeText"}
              /\ c = "paragraph" <=> e.kind = "paragraph"
              /\ c = "blank" => FragmentOf(e) = <<>>
              /\ c = "header" => OpensWith(FragmentOf(e), <<"<", "h">>)
              /\ c = "item" => OpensWith(FragmentOf(e), OpenTag(<<"l", "i">>))
              /\ c = "paragraph" => OpensWith(FragmentOf(e), POpen)
              /\ c \in {"header", "item"} =>
                    (k < Len(trace) => trace[k + 1].kind \in ScannerKinds)

\* A list item and a header, each containing a pipe and each followed by a
\* separator row, have been emitted.
DispatchOrderWitness ==
    /\ \E k \in 1..Len(trace) :
          /\ trace[k].kind = "item"
          /\ IsTableCandidate(LineOf(trace[k]))
          /\ IsSeparatorRow(LineAfter(trace[k]))
    /\ \E k \in 1..Len(trace) :
          /\ trace[k].kind = "header"
          /\ IsTableCandidate(LineOf(trace[k]))
          /\ IsSeparatorRow(LineAfter(trace[k]))

-----------------------------------------------------------------------------
(* C5 *)

\* What one step does to the line cursors: an iteration of the scanner's
\* loop moves i forward, also the iteration that hands a region to the
\* sub-parser and takes i from the index it returns; an iteration of the row
\* loop moves currentIndex forward; neither cursor passes the end of lines.
CursorAdvances ==
    /\ (pc = "scan" /\ pc' = "scan") => i' > i
    /\ (pc = "scan" /\ pc' = "table") => i' = i /\ startIndex' = i /\ currentIndex' > i
    /\ (pc = "table" /\ pc' = "table") => i' = i /\ currentIndex' > currentIndex
    /\ (pc = "table" /\ pc' = "scan") => i' > i /\ i' > LastIndex(currentIndex)
    /\ (pc \in {"scan", "table"}) => i' <= Len(lines) /\ currentIndex' <= Len(lines)

\* A natural number that bounds the steps a call has left: the lines not
\* yet read, counted twice, and the position inside the iteration.
Variant ==
    CASE pc = "start" -> 2 * (Len(markdown) + 1) + 2
      [] pc = "scan" -> 2 * (Len(lines) - i) + 1
      [] pc = "table" -> 2 * (Len(lines) - currentIndex) + 2
      [] OTHER -> 0

\* C5: every iteration of the scanner's loop and of the sub-parser's row
\* loop strictly increases its line cursor, the iteration that takes the
\* cursor from the returned index included, and the conversion terminates:
\* a natural number decreases with every step of the call.
Termination == [][CursorAdvances /\ Variant' < Variant /\ Variant' >= 0]_vars

\* A conversion has returned after the scanner took its cursor from the
\* index returned for a region with a row.
TerminationWitness ==
    /\ pc = "done"
    /\ \E k \in 1..Len(trace) : trace[k].kind = "row"

-----------------------------------------------------------------------------
(* C6 *)

\* In the current state some statement of the call can run: the replace
\* chain, an iteration of the scanner's loop on a line that some branch
\* takes, an iteration or the exit of the row loop, or the code after the
\* scanner's loop.
CanStep ==
    \/ pc = "start"
    \/ \E kind \in {"blank", "header", "item", "table", "paragraph"} : AtBranch(kind)
    \/ pc = "scan" /\ ~(i < Len(lines))
    \/ pc = "table"

\* A text none of whose characters stands for a failed read.
IsText(t) == \A k \in 1..Len(t) : t[k] \notin {"undefined", "TypeError"}

\* C6: no call raises, at no point is a call stuck (every line is taken by
\* a branch, the paragraph branch when no other applies), no read of lines
\* is out of range, and what is returned is a text.
Totality ==
    /\ pc \in {"start", "scan", "table", "done"}
    /\ pc # "done" => CanStep
    /\ (pc = "scan" /\ i < Len(lines)) =>
          /\ CurrentLine # TypeError
          /\ NextLine(lines, i) # TypeError
          /\ Classify(CurrentLine) = "paragraph" <=>
                /\ CurrentLine # <<>>
                /\ ~IsHeader(CurrentLine)
                /\ ~IsListItem(CurrentLine)
                /\ ~IsTableCandidate(CurrentLine)
    /\ pc = "table" =>
          /\ LineAt(lines, startIndex) # Undefined
          /\ currentIndex < Len(lines) => LineAt(lines, currentIndex) # Undefined
    /\ pc = "done" => IsText(result)

\* A conversion has returned whose last line was a table candidate, so that
\* the lookahead went past the last line.
TotalityWitness ==
    /\ pc = "done"
    /\ trace # <<>>
    /\ trace[Len(trace)].kind = "pipeText"
    /\ trace[Len(trace)].idx = Len(lines) - 1

-----------------------------------------------------------------------------
(* C7 *)

\* The seven characters C7 says the normalizer rewrites.
NormalizerSources ==
    {EnDash, EmDash, LeftDoubleQuote, RightDoubleQuote,
     LeftSingleQuote, RightSingleQuote, "&"}

\* What C7 says becomes of one character.
SubstituteOf(c) ==
    CASE c \in {EnDash, EmDash} -> <<"-">>
      [] c \in {LeftDoubleQuote, RightDoubleQuote} -> <<"\"">>
      [] c \in {LeftSingleQuote, RightSingleQuote} -> <<"'">>
      [] c = "&" -> <<"a", "n", "d">>
      [] OTHER -> <<c>>

\* C7: the normalized text is the input with each dash, each smart quote and
\* each ampersand replaced as stated and every other character kept, so it
\* contains none of the seven characters.
NormalizerSubstitutions ==
    pc \in {"scan", "table"} =>
        /\ result = Concat([k \in 1..Len(markdown) |-> SubstituteOf(markdown[k])])
        /\ \A k \in 1..Len(result) : result[k] \notin NormalizerSources

-----------------------------------------------------------------------------
(* C8 *)

\* C8: the replace chain applied to the normalized text returns it
\* unchanged.  The normalized text is result when the scanner starts, and
\* result is not assigned again before the scanner's loop has ended.
NormalizeIdempotent ==
    (pc = "scan" /\ i = 0) => Normalize(result) = result

\* A text that the normalizer changed has been normalized.
NormalizeIdempotentWitness ==
    /\ pc = "scan"
    /\ i = 0
    /\ result # markdown
    /\ Includes(markdown, "&")

-----------------------------------------------------------------------------
(* C9 *)

\* A line made up only of dashes, colons, pipes and white space.
IsSeparatorOnly(line) ==
    \A k \in 1..Len(line) : line[k] \in {"-", ":", "|"} \cup WhiteSpace

\* C9: a non-blank line that is neither a header nor a list item takes the
\* table branch exactly when it contains a pipe and is not a separator-only
\* line, and the paragraph branch otherwise.
TableCandidateRule ==
    \A k \in 1..Len(trace) :
        LET e == trace[k]
            line == LineOf(e)
        IN  (e.kind \in {"table", "pipeText", "paragraph"}) =>
              /\ e.kind \in {"table", "pipeText"} <=>
                    (Includes(line, "|") /\ ~IsSeparatorOnly(line))
              /\ e.kind = "paragraph" <=>
                    ~(Includes(line, "|") /\ ~IsSeparatorOnly(line))

-----------------------------------------------------------------------------
(* C10 *)

\* The line with every '|' replaced by ' | ', nothing else done to it.
PaddedPipes(line) == ReplaceChar(line, "|", <<" ", "|", " ">>)

\* The fragments pushed in the step of trace event k: those after the
\* fragments of the event before it.
FragmentsOf(k) ==
    SubSeq(htmlLines, (IF k = 1 THEN 0 ELSE trace[k - 1].frag) + 1, trace[k].frag)

\* What C10 and its amendment share: a candidate whose next line is absent,
\* blank or no separator row is the false-positive case; the line yields one
\* fragment, after the "</ul>" of a list that was open, and the scanner moves
\* on by one line.
PipeLineShape(k) ==
    LET e == trace[k] IN
    /\ e.kind \in {"table", "pipeText"} =>
          (e.kind = "pipeText" <=> ~IsSeparatorRow(LineAfter(e)))
    /\ e.kind = "pipeText" =>
          /\ FragmentsOf(k) \in {<<FragmentOf(e)>>, <<UlClose, FragmentOf(e)>>}
          /\ k < Len(trace) =>
                trace[k + 1].idx = e.idx + 1 /\ trace[k + 1].kind \in ScannerKinds
          /\ (k = Len(trace) /\ pc = "scan") => i = e.idx + 1

\* C10 as stated: the paragraph's text is the line with every '|' replaced
\* by ' | '.
PipeTextUntrimmed ==
    \A k \in 1..Len(trace) :
        /\ PipeLineShape(k)
        /\ trace[k].kind = "pipeText" =>
              FragmentOf(trace[k]) = Element(<<"p">>, PaddedPipes(LineOf(trace[k])))

\* C10, amended: the paragraph's text is the line with every '|' replaced
\* by ' | ' and the result trimmed; asterisks stay as they are and there is
\* no table markup.
PipeTextParagraph ==
    \A k \in 1..Len(trace) :
        /\ PipeLineShape(k)
        /\ trace[k].kind = "pipeText" =>
              FragmentOf(trace[k]) = Element(<<"p">>, Trim(PaddedPipes(LineOf(trace[k]))))

\* A false-positive line with asterisks and one that ends with a pipe have
\* been emitted, the second inside an open list.
PipeTextParagraphWitness ==
    /\ \E k \in 1..Len(trace) :
          /\ trace[k].kind = "pipeText"
          /\ Includes(LineOf(trace[k]), "*")
    /\ \E k \in 1..Len(trace) :
          /\ trace[k].kind = "pipeText"
          /\ LineOf(trace[k])[Len(LineOf(trace[k]))] = "|"
          /\ FragmentsOf(k)[1] = UlClose

-----------------------------------------------------------------------------
(* Table regions in the trace *)

\* Trace event k is the header line of a table region.
IsRegion(k) == k \in 1..Len(trace) /\ trace[k].kind = "table"

\* The number of row events that follow the separator of region k.
RowCount(k) ==
    LET after == {j \in (k + 2)..(Len(trace) + 1) :
                     j = Len(trace) + 1 \/ trace[j].kind # "row"}
    IN  Least(after) - (k + 2)

\* The trimmed lines the row loop consumed for region k, in input order.
RowLines(k) == [j \in 1..RowCount(k) |-> LineOf(trace[k + 1 + j])]

\* The sub-parser has returned for region k and the scanner has pushed what
\* it returned.
Returned(k) == ~(pc = "table" /\ startIndex = trace[k].idx)

\* The fragment pushed for region k: the one after the fragments that were
\* there when the region was entered.
TableFragment(k) == htmlLines[trace[k].frag + 1]

\* The cells of a trimmed table line, read off the line: the pieces between
\* its pipes, without the piece before a first-character pipe and the piece
\* after a last-character pipe, each trimmed.
CellsOf(line) ==
    LET pieces == Split(line, "|")
        lead == IF line[1] = "|" THEN 1 ELSE 0
        trail == IF line[Len(line)] = "|" THEN 1 ELSE 0
    IN  [j \in 1..(Len(pieces) - lead - trail) |-> Trim(pieces[j + lead])]

\* The positions of s at which the text pat begins.
Occurrences(s, pat) == {k \in 1..Len(s) : StartsWith(DropFirst(s, k - 1), pat)}

ThOpen == OpenTag(<<"t", "h">>)
TdOpen == OpenTag(<<"t", "d">>)
TrOpen == OpenTag(<<"t", "r">>)
TrClose == CloseTag(<<"t", "r">>)
TableOpen == OpenTag(<<"t", "a", "b", "l", "e">>) \o OpenTag(<<"t", "b", "o", "d", "y">>)
TableClose == CloseTag(<<"t", "b", "o", "d", "y">>) \o CloseTag(<<"t", "a", "b", "l", "e">>)

-----------------------------------------------------------------------------
(* C11 *)

\* One row of the expected markup: the cells in their order, each in an
\* element of the given tag.
RowOfCells(cells, tag) ==
    TrOpen \o Concat([j \in 1..Len(cells) |-> Element(tag, CellText(cells[j]))]) \o TrClose

\* The data rows of region k: the cells of its row lines that have cells.
DataRowsOf(k) == SelectSeq([j \in 1..RowCount(k) |-> CellsOf(RowLines(k)[j])],
                           LAMBDA cells : cells # <<>>)

\* C11: the fragment pushed for a table region is one table wrapper around
\* one row of <th> elements, the header line's cells in their order, and
\* then one row of <td> elements per data row, rows in input order and cells
\* from left to right.
TableMarkup ==
    \A k \in 1..Len(trace) :
        (IsRegion(k) /\ Returned(k)) =>
            LET hs == CellsOf(LineOf(trace[k]))
                rows == DataRowsOf(k)
            IN  TableFragment(k) =
                    TableOpen
                    \o (IF hs = <<>> THEN <<>> ELSE RowOfCells(hs, <<"t", "h">>))
                    \o Concat([r \in 1..Len(rows) |-> RowOfCells(rows[r], <<"t", "d">>)])
                    \o TableClose

\* A table with several header cells, not all the same, and two data rows
\* of different cells has been emitted.
TableMarkupWitness ==
    \E k \in 1..Len(trace) :
        /\ IsRegion(k)
        /\ Returned(k)
        /\ Len(CellsOf(LineOf(trace[k]))) >= 2
        /\ CellsOf(LineOf(trace[k]))[1] # CellsOf(LineOf(trace[k]))[2]
        /\ Len(DataRowsOf(k)) = 2
        /\ DataRowsOf(k)[1] # DataRowsOf(k)[2]

-----------------------------------------------------------------------------
(* C12 *)

\* cells is what the split rule makes of a trimmed table line: of the pieces
\* between the pipes, the empty piece before a first-character pipe and the
\* empty piece after a last-character pipe are dropped, at most one at each
\* end; every other piece is kept in its place, empty or not, and trimmed.
SplitRule(line, cells) ==
    LET pieces == Split(line, "|")
        lead == IF line[1] = "|" THEN 1 ELSE 0
        trail == IF line[Len(line)] = "|" THEN 1 ELSE 0
    IN  /\ lead = 1 => pieces[1] = <<>>
        /\ trail = 1 => pieces[Len(pieces)] = <<>>
        /\ Len(cells) = Len(pieces) - lead - trail
        /\ \A j \in 1..Len(cells) : cells[j] = Trim(pieces[j + lead])

\* C12: while the sub-parser runs, its header cells follow the split rule
\* for the header line, and the rows it has collected follow the same rule
\* for the row lines consumed so far, in order (a row line that the rule
\* leaves without cells has no entry).
CellSplitting ==
    pc = "table" =>
        LET k == startIndex + 1
            kept == {j \in 1..RowCount(k) : CellsOf(RowLines(k)[j]) # <<>>}
            nth(r) == CHOOSE j \in kept : Cardinality({q \in kept : q < j}) = r - 1
        IN  /\ IsRegion(k)
            /\ SplitRule(LineOf(trace[k]), headers)
            /\ Len(dataRows) = Cardinality(kept)
            /\ \A r \in 1..Len(dataRows) : SplitRule(RowLines(k)[nth(r)], dataRows[r])

\* The sub-parser holds the cells of a header line with outer pipes and an
\* empty interior cell, and a row from a line without outer pipes.
CellSplittingWitness ==
    /\ pc = "table"
    /\ Len(headers) = 3
    /\ headers[2] = <<>>
    /\ Len(Split(LineOf(trace[startIndex + 1]), "|")) = 5
    /\ dataRows # <<>>
    /\ Len(dataRows[1]) = Len(Split(RowLines(startIndex + 1)[1], "|"))

-----------------------------------------------------------------------------
(* C13 *)

\* The number of rows in a table fragment that are not the header row.
DataRowElements(frag) ==
    Cardinality(Occurrences(frag, TrOpen)) - Cardinality(Occurrences(frag, TrOpen \o ThOpen))

\* The row lines of region k the split rule leaves with at least one cell.
CellLines(k) == {j \in 1..RowCount(k) : CellsOf(RowLines(k)[j]) # <<>>}

\* C13 as stated: the table emitted for a region has as many data rows as
\* the row loop consumed lines.
RowPerLine ==
    \A k \in 1..Len(trace) :
        (IsRegion(k) /\ Returned(k)) => DataRowElements(TableFragment(k)) = RowCount(k)

\* C13, amended: the table emitted for a region has one data row for every
\* consumed line that has at least one cell and none for a consumed line
\* without cells (a line that is a single pipe), so it has as many data rows
\* as the row loop consumed lines with cells.
RowPerCellLine ==
    \A k \in 1..Len(trace) :
        (IsRegion(k) /\ Returned(k)) =>
            /\ DataRowElements(TableFragment(k)) = Cardinality(CellLines(k))
            /\ DataRowElements(TableFragment(k)) <= RowCount(k)

\* A table has been emitted whose region has a row line with cells and a
\* row line without.
RowPerCellLineWitness ==
    \E k \in 1..Len(trace) :
        /\ IsRegion(k)
        /\ Returned(k)
        /\ RowCount(k) = 2
        /\ Cardinality(CellLines(k)) = 1

-----------------------------------------------------------------------------
(* C14 *)

\* s ends with the text p.
EndsWith(s, p) == Len(s) >= Len(p) /\ SubSeq(s, Len(s) - Len(p) + 1, Len(s)) = p

\* C14: the table emitted for a region whose header line has no cells has
\* no <th> element and no row besides the data rows: the wrapper is there,
\* every row is a row of <td> elements, and there is one for each row line
\* with cells.  A header line with cells gives exactly one row of <th>, the
\* first row.
HeaderlessTable ==
    \A k \in 1..Len(trace) :
        (IsRegion(k) /\ Returned(k)) =>
            LET frag == TableFragment(k)
                inner == SubSeq(frag, Len(TableOpen) + 1, Len(frag) - Len(TableClose))
            IN  /\ StartsWith(frag, TableOpen)
                /\ EndsWith(frag, TableClose)
                /\ IF CellsOf(LineOf(trace[k])) = <<>>
                   THEN /\ Occurrences(frag, ThOpen) = {}
                        /\ Occurrences(inner, TrOpen) = Occurrences(inner, TrOpen \o TdOpen)
                        /\ Cardinality(Occurrences(inner, TrOpen)) = Cardinality(CellLines(k))
                        /\ inner = <<>> <=> CellLines(k) = {}
                   ELSE /\ Occurrences(inner, TrOpen \o ThOpen) = {1}
                        /\ Cardinality(Occurrences(frag, ThOpen)) = Len(CellsOf(LineOf(trace[k])))

\* A table has been emitted whose header line is a single pipe and which
\* has a data row.
HeaderlessTableWitness ==
    \E k \in 1..Len(trace) :
        /\ IsRegion(k)
        /\ Returned(k)
        /\ LineOf(trace[k]) = <<"|">>
        /\ CellLines(k) # {}

-----------------------------------------------------------------------------
(* C15 *)

\* The r-th smallest element of a set of numbers.
Nth(P, r) == CHOOSE j \in P : Cardinality({q \in P : q < j}) = r - 1

\* The r-th <tr> element of a table fragment, from its opening tag up to the
\* next row or the end of the fragment.
RowElement(frag, r) ==
    LET opens == Occurrences(frag, TrOpen)
        from == Nth(opens, r)
        to == IF r < Cardinality(opens) THEN Nth(opens, r + 1) - 1 ELSE Len(frag)
    IN  SubSeq(frag, from, to)

\* C15: in the table emitted for a region every data row has one <td>
\* element per cell of its line, whatever the number of header cells: the
\* r-th data row is made from the r-th row line with cells and holds exactly
\* that line's cells, as many as the line has.
RaggedRows ==
    \A k \in 1..Len(trace) :
        (IsRegion(k) /\ Returned(k)) =>
            LET frag == TableFragment(k)
                first == IF CellsOf(LineOf(trace[k])) = <<>> THEN 0 ELSE 1
            IN  \A r \in 1..Cardinality(CellLines(k)) :
                    LET cells == CellsOf(RowLines(k)[Nth(CellLines(k), r)])
                        row == RowElement(frag, first + r)
                    IN  /\ Cardinality(Occurrences(row, TdOpen)) = Len(cells)
                        /\ row = RowOfCells(cells, <<"t", "d">>)
                                 \o (IF r = Cardinality(CellLines(k)) THEN TableClose ELSE <<>>)

\* A table has been emitted that has header cells and a data row with fewer
\* cells than the header, and one with as many.
RaggedRowsWitness ==
    \E k \in 1..Len(trace) :
        /\ IsRegion(k)
        /\ Returned(k)
        /\ Len(CellsOf(LineOf(trace[k]))) = 3
        /\ \E j \in CellLines(k) : Len(CellsOf(RowLines(k)[j])) = 2
        /\ \E j \in CellLines(k) : Len(CellsOf(RowLines(k)[j])) = 3

\* A table without header cells has been emitted whose data row has cells.
RaggedRowsLongerWitness ==
    \E k \in 1..Len(trace) :
        /\ IsRegion(k)
        /\ Returned(k)
        /\ CellsOf(LineOf(trace[k])) = <<>>
        /\ \E j \in CellLines(k) : Len(CellsOf(RowLines(k)[j])) = 3

-----------------------------------------------------------------------------
(* C16 *)

\* The number of '#' a line begins with.
LeadingHashes(line) == RunLength(line, {"#"})

\* C16: a header element has level 1, 2 or 3, the number of '#' its line
\* begins with, in its opening and in its closing tag; a line that begins
\* with four or more '#' is not emitted as a header; and no fragment opens
\* with a header tag of another level.
HeaderLevels ==
    /\ \A k \in 1..Len(trace) :
          LET e == trace[k]
              n == LeadingHashes(LineOf(e))
          IN  /\ e.kind = "header" =>
                    /\ n \in 1..3
                    /\ StartsWith(FragmentOf(e), <<"<", "h", Digits[n + 1], ">">>)
                    /\ EndsWith(FragmentOf(e), <<"<", "/", "h", Digits[n + 1], ">">>)
              /\ (e.kind \in ScannerKinds /\ n >= 4) =>
                    /\ e.kind \in {"paragraph", "pipeText", "table"}
                    /\ e.kind # "table" => StartsWith(FragmentOf(e), POpen)
    /\ \A f \in 1..Len(htmlLines) :
          StartsWith(htmlLines[f], <<"<", "h">>) => htmlLines[f][3] \in {"1", "2", "3"}

\* A level-3 header has been emitted and then a line that begins with four
\* '#' and a space.
HeaderLevelsWitness ==
    \E k \in 2..Len(trace) :
        /\ trace[k - 1].kind = "header"
        /\ LeadingHashes(LineOf(trace[k - 1])) = 3
        /\ LeadingHashes(LineOf(trace[k])) = 4
        /\ trace[k].kind = "paragraph"

-----------------------------------------------------------------------------
(* C17 *)

\* The fragments a step pushes.
Pushed == SubSeq(htmlLines', Len(htmlLines) + 1, Len(htmlLines'))

\* What one iteration of the scanner's loop does about the list, by the
\* flag before it and by whether its line is a list item.
ListStep ==
    (pc = "scan" /\ i < Len(lines) /\ pc' # "error") =>
        /\ SubSeq(htmlLines', 1, Len(htmlLines)) = htmlLines
        /\ (inList /\ ~IsListItem(CurrentLine)) =>
              /\ Pushed # <<>>
              /\ Pushed[1] = UlClose
              /\ \A f \in 2..Len(Pushed) : Pushed[f] \notin {UlOpen, UlClose}
              /\ ~inList'
        /\ (~inList /\ ~IsListItem(CurrentLine)) =>
              /\ \A f \in 1..Len(Pushed) : Pushed[f] \notin {UlOpen, UlClose}
              /\ ~inList'
        /\ (inList /\ IsListItem(CurrentLine)) =>
              /\ Len(Pushed) = 1
              /\ StartsWith(Pushed[1], OpenTag(<<"l", "i">>))
              /\ inList'
        /\ (~inList /\ IsListItem(CurrentLine)) =>
              /\ Len(Pushed) = 2
              /\ Pushed[1] = UlOpen
              /\ StartsWith(Pushed[2], OpenTag(<<"l", "i">>))
              /\ inList'

\* C17: when list mode is open and the scanner reaches a line that is no
\* list item, "</ul>" is the first fragment pushed for the line and list mode
\* is false afterwards; a list item reached in list mode adds its <li> to
\* the open list, with no further "<ul>"; and the sub-parser, entered with
\* list mode false, leaves it false.
ListCloseBeforeLine == [][ListStep /\ (pc = "table" => ~inList /\ ~inList')]_vars

\* The fragments of two list items, a blank line and a paragraph: one
\* "<ul>", two items, one "</ul>", the empty fragment, the paragraph.
ListCloseBeforeLineWitness ==
    /\ Len(trace) = 4
    /\ trace[1].kind = "item" /\ trace[2].kind = "item"
    /\ trace[3].kind = "blank" /\ trace[4].kind = "paragraph"
    /\ Len(htmlLines) = 6
    /\ htmlLines[1] = UlOpen
    /\ StartsWith(htmlLines[2], OpenTag(<<"l", "i">>))
    /\ StartsWith(htmlLines[3], OpenTag(<<"l", "i">>))
    /\ htmlLines[4] = UlClose
    /\ htmlLines[5] = <<>>
    /\ StartsWith(htmlLines[6], POpen)

-----------------------------------------------------------------------------
(* C18 *)

\* The most spans in a text of spans.
MaxSpans == 3

\* A bold span and an italic span, asterisk-free text that separates two
\* spans, and what may stand before the first and after the last span.
Spans == {<<"*", "*", "a", "*", "*">>, <<"*", "b", "*">>}
Separators == {<<"x">>, <<" ">>}
Ends == {<<>>, <<"x">>}

\* Spans sp with the separators sep between them.
Weave(sp, sep) ==
    Concat([j \in 1..(2 * Len(sp) - 1) |->
              IF j % 2 = 1 THEN sp[(j + 1) \div 2] ELSE sep[j \div 2]])

\* The texts of two to n spans separated by asterisk-free text.
SpanTexts(n) ==
    UNION { { s0 \o Weave(sp, sep) \o sn :
                sp \in [1..m -> Spans], sep \in [1..(m - 1) -> Separators],
                s0 \in Ends, sn \in Ends } : m \in 2..n }

\* A text of spans wherever the converter applies the inline formatter (a
\* paragraph, a header, a list item, the cells of a table) and where it
\* does not (a candidate line without a separator row).
InContext(t) ==
    { t,
      <<"#", "#", " ">> \o t,
      <<"-", " ">> \o t \o <<NewLine>>,
      <<"|">> \o t \o <<"|", NewLine, "-", "|", "-", NewLine>> \o t \o <<"|">> \o t,
      t \o <<"|">> }

SpanInputs == UNION { InContext(t) : t \in SpanTexts(MaxSpans) }

SpanInit == InitWith(SpanInputs)

\* The converter on texts of spans.
SpanSpec == SpanInit /\ [][Next]_vars

\* Where the first span of s begins, how many asterisks delimit it, how long
\* its content is, and the text after it (s has an asterisk).
FirstSpan(s) ==
    LET at == Least({k \in 1..Len(s) : s[k] = "*"})
        d == IF at < Len(s) /\ s[at + 1] = "*" THEN 2 ELSE 1
        inner == DropFirst(s, at - 1 + d)
        n == RunUntil(inner, "*")
    IN  [at |-> at, d |-> d, content |-> SubSeq(inner, 1, n),
         closed |-> n >= 1 /\ IsStars(DropFirst(inner, n), d),
         rest |-> DropFirst(inner, n + d)]

RECURSIVE SpanCountOf(_, _)
\* The number of spans of s when s is asterisk-free text and well-formed
\* spans **X** and *Y* in turn, X and Y asterisk-free and not empty, with
\* text between any two spans; -1 when s is not of that form.  after tells
\* that s follows a span.
SpanCountOf(s, after) ==
    IF ~Includes(s, "*") THEN 0
    ELSE LET f == FirstSpan(s)
         IN  IF (after /\ f.at = 1) \/ ~f.closed THEN -1
             ELSE LET more == SpanCountOf(f.rest, TRUE)
                  IN  IF more = -1 THEN -1 ELSE more + 1

\* s has two or more well-formed spans separated by asterisk-free text.
IsSpanText(s) == SpanCountOf(s, FALSE) >= 2

RECURSIVE WrapSpans(_)
\* A span text with each span wrapped on its own: <strong> around the X of
\* **X**, <em> around the Y of *Y*, the text between the spans as it is.
WrapSpans(s) ==
    IF ~Includes(s, "*") THEN s
    ELSE LET f == FirstSpan(s)
         IN  SubSeq(s, 1, f.at - 1)
             \o (IF f.d = 2 THEN StrongOpen \o f.content \o StrongClose
                 ELSE EmOpen \o f.content \o EmClose)
             \o WrapSpans(f.rest)

\* The text the inline formatter was applied to for a scanner event, and
\* the tags around the formatted text.
FormattedText(e) ==
    CASE e.kind = "header" -> HeaderText(LineOf(e))
      [] e.kind = "item" -> DropFirst(LineOf(e), 2)
      [] OTHER -> LineOf(e)

TagOf(e) ==
    CASE e.kind = "header" -> <<"h">> \o NumberText(LeadingHashes(LineOf(e)))
      [] e.kind = "item" -> <<"l", "i">>
      [] OTHER -> <<"p">>

\* C18: where the converter formats a text of two or more well-formed
\* spans separated by asterisk-free text (a paragraph, a header, a list
\* item, a table cell), each span is wrapped on its own, **X** in <strong>
\* and *Y* in <em>, and the text between the spans is outside the tags; so
\* there is one <strong> per **X**, one <em> per *Y* and none from a **X**.
SpansWrapped ==
    /\ \A k \in 1..Len(trace) :
          LET e == trace[k] IN
          (e.kind \in {"paragraph", "header", "item"} /\ IsSpanText(FormattedText(e))) =>
              FragmentOf(e) = Element(TagOf(e), WrapSpans(FormattedText(e)))
    /\ \A k \in 1..Len(trace) :
          (IsRegion(k) /\ Returned(k)) =>
              \A c \in 1..Len(CellsOf(LineOf(trace[k]))) :
                  LET cell == CellsOf(LineOf(trace[k]))[c] IN
                  IsSpanText(cell) =>
                      Occurrences(TableFragment(k),
                                  Element(<<"t", "h">>, WrapSpans(cell))) # {}

\* A paragraph has been emitted for a text of three spans, bold, italic and
\* bold.
SpansWrappedWitness ==
    \E k \in 1..Len(trace) :
        /\ trace[k].kind = "paragraph"
        /\ SpanCountOf(LineOf(trace[k]), FALSE) = 3
        /\ Cardinality(Occurrences(FragmentOf(trace[k]), StrongOpen)) = 2
        /\ Cardinality(Occurrences(FragmentOf(trace[k]), EmOpen)) = 1

-----------------------------------------------------------------------------
(* C19 *)

\* The trace events of blank lines.
BlankEvents == {k \in 1..Len(trace) : trace[k].kind = "blank"}

\* C19: every blank line that is read is read by the scanner, in its blank
\* branch (none is taken as the separator or as a row of a table); the
\* branch pushes one empty fragment, after the "</ul>" when the line before
\* was a list item, and the scanner goes on with the next line.  No other
\* branch pushes an empty fragment, so the fragments hold one empty fragment
\* per blank line read, and per blank line of the input when the
\* conversion has returned.
BlankLinesKept ==
    /\ \A k \in 1..Len(trace) :
          LET e == trace[k] IN
          /\ LineOf(e) = <<>> <=> e.kind = "blank"
          /\ e.kind = "blank" =>
                /\ e.frag >= 1
                /\ FragmentOf(e) = <<>>
                /\ (k > 1 /\ trace[k - 1].kind = "item") =>
                      e.frag >= 2 /\ htmlLines[e.frag - 1] = UlClose
                /\ k < Len(trace) =>
                      trace[k + 1].idx = e.idx + 1 /\ trace[k + 1].kind \in ScannerKinds
                /\ (k = Len(trace) /\ pc = "scan") => i = e.idx + 1
    /\ CountFragments(htmlLines, <<>>) = Cardinality(BlankEvents)
    /\ pc = "done" =>
          Cardinality(BlankEvents) = Cardinality({j \in 1..Len(lines) : Trim(lines[j]) = <<>>})

\* A conversion has returned for an input with a blank line after a list
\* item and two blank lines in a row.
BlankLinesKeptWitness ==
    /\ pc = "done"
    /\ \E k \in 2..(Len(trace) - 1) :
          /\ trace[k - 1].kind = "item"
          /\ trace[k].kind = "blank"
          /\ trace[k + 1].kind = "blank"

-----------------------------------------------------------------------------
(* C20 *)

\* The names of the tags of the output contract.
TagNames ==
    { <<"h", "1">>, <<"h", "2">>, <<"h", "3">>, <<"u", "l">>, <<"l", "i">>, <<"p">>,
      <<"s", "t", "r", "o", "n", "g">>, <<"e", "m">>,
      <<"t", "a", "b", "l", "e">>, <<"t", "b", "o", "d", "y">>,
      <<"t", "r">>, <<"t", "h">>, <<"t", "d">> }

\* The plain opening and closing tags of those names.
PlainTags ==
    {<<"<">> \o n \o <<">">> : n \in TagNames} \cup {<<"<", "/">> \o n \o <<">">> : n \in TagNames}

\* The text of s from the '<' at position k up to the next '>', or to the
\* end of s when no '>' follows.
TagAt(s, k) == SubSeq(s, k, k + RunUntil(DropFirst(s, k - 1), ">"))

\* Every '<' of s begins a plain tag of the contract and every '>' of s ends
\* one.
OnlyPlainTags(s) ==
    /\ \A k \in 1..Len(s) : s[k] = "<" => TagAt(s, k) \in PlainTags
    /\ Cardinality({k \in 1..Len(s) : s[k] = "<"}) = Cardinality({k \in 1..Len(s) : s[k] = ">"})

\* C20: the explored inputs have no '<' and no '>', so every tag of the
\* output is one the converter generated; when the conversion has returned,
\* every tag in every fragment and in the returned text is <name> or
\* </name> for a name of the contract: no other name, no attribute, no
\* self-closing form.
GeneratedTags ==
    pc = "done" =>
        /\ ~Includes(markdown, "<") /\ ~Includes(markdown, ">")
        /\ \A f \in 1..Len(htmlLines) : OnlyPlainTags(htmlLines[f])
        /\ OnlyPlainTags(result)

\* A conversion has returned a list, a table with header and data cells and
\* an italic span.
GeneratedTagsWitness ==
    /\ pc = "done"
    /\ Occurrences(result, UlOpen) # {}
    /\ Occurrences(result, OpenTag(<<"l", "i">>)) # {}
    /\ Occurrences(result, TableOpen) # {}
    /\ Occurrences(result, ThOpen) # {}
    /\ Occurrences(result, TdOpen) # {}
    /\ Occurrences(result, EmOpen) # {}

-----------------------------------------------------------------------------
(* The converter as a function of its input *)

\* The index at which the sub-parser's row loop, started at index k, stops:
\* the first line from k on that is blank or has no pipe, or the number of
\* lines.
RowsEnd(ls, k) ==
    LET stops == {j \in k..(Len(ls) - 1) : ~IsPipeRow(Trim(ls[j + 1]))}
    IN  IF stops = {} THEN Len(ls) ELSE Least(stops)

\* The data rows the loop collects from the lines k up to e - 1: the cells
\* of each line that has cells.
RowsBetween(ls, k, e) ==
    SelectSeq([j \in 1..(e - k) |-> SplitCells(Trim(ls[k + j]))],
              LAMBDA cells : Len(cells) > 0)

\* One table row whose cells go through the inline formatter only.
TableRowHtmlOnce(cells, cellTag) ==
    OpenTag(<<"t", "r">>)
    \o Concat([k \in 1..Len(cells) |-> Element(cellTag, InlineFormat(cells[k]))])
    \o CloseTag(<<"t", "r">>)

\* The table generator without the replace chain on each cell.
TableHtmlOnce(hs, rows) ==
    OpenTag(<<"t", "a", "b", "l", "e">>) \o OpenTag(<<"t", "b", "o", "d", "y">>)
    \o (IF Len(hs) > 0 THEN TableRowHtmlOnce(hs, <<"t", "h">>) ELSE <<>>)
    \o Concat([r \in 1..Len(rows) |-> TableRowHtmlOnce(rows[r], <<"t", "d">>)])
    \o CloseTag(<<"t", "b", "o", "d", "y">>) \o CloseTag(<<"t", "a", "b", "l", "e">>)

RECURSIVE ScanFrom(_, _, _, _, _)
\* The fragments the scanner has pushed when its loop ends, started at line
\* k with list mode open and the fragments h; again tells whether the table
\* generator runs the replace chain on each cell.
ScanFrom(ls, k, open, h, again) ==
    IF ~(k < Len(ls)) THEN (IF open THEN Append(h, UlClose) ELSE h)
    ELSE
    LET line == Trim(ls[k + 1])
        kind == Classify(line)
        closed == IF open THEN Append(h, UlClose) ELSE h
    IN  IF kind = "blank" THEN
            ScanFrom(ls, k + 1, FALSE, Append(closed, <<>>), again)
        ELSE IF kind = "header" THEN
            ScanFrom(ls, k + 1, FALSE,
                     Append(closed, HeaderElement(HeaderLevel(line),
                                                  InlineFormat(HeaderText(line)))),
                     again)
        ELSE IF kind = "item" THEN
            ScanFrom(ls, k + 1, TRUE,
                     Append(IF open THEN h ELSE Append(h, UlOpen),
                            Element(<<"l", "i">>, InlineFormat(DropFirst(line, 2)))),
                     again)
        ELSE IF kind = "table" /\ IsSeparatorRow(NextLine(ls, k)) THEN
            LET e == RowsEnd(ls, k + 2)
                hs == SplitCells(line)
                rows == RowsBetween(ls, k + 2, e)
            IN  ScanFrom(ls, e, FALSE,
                         Append(closed, IF again THEN TableHtml(hs, rows)
                                        ELSE TableHtmlOnce(hs, rows)),
                         again)
        ELSE IF kind = "table" THEN
            ScanFrom(ls, k + 1, FALSE, Append(closed, Element(<<"p">>, PipeText(line))),
                     again)
        ELSE
            ScanFrom(ls, k + 1, FALSE, Append(closed, Element(<<"p">>, InlineFormat(line))),
                     again)

\* The fragments of a whole conversion.
Fragments(md, again) == ScanFrom(Split(Normalize(md), NewLine), 0, FALSE, <<>>, again)

\* convertMarkdownToConfluenceStorage as a function: what one call returns.
Convert(md) == Cleanup(Concat(Fragments(md, TRUE)))

\* The converter whose table generator formats the cells without running
\* the replace chain on them again.
ConvertOnce(md) == Cleanup(Concat(Fragments(md, FALSE)))

-----------------------------------------------------------------------------
(* C21 *)

\* The most cells in a line of a table of CellTables.
MaxCells == 2

\* Cell texts with the characters the replace chain looks for: an ampersand,
\* the two dashes, typographic and plain quotation marks, an ampersand inside
\* an italic span, and a text it leaves alone.
CellTexts == {
    <<"a", "&", "b">>,
    <<EnDash>>,
    <<"a", EmDash>>,
    <<LeftDoubleQuote, "a", RightDoubleQuote>>,
    <<LeftSingleQuote, "'", "\"">>,
    <<"*", "a", "&", "*">>,
    <<"a">>
}

\* |c1|c2|...|
JoinCells(cs) == Concat([k \in 1..Len(cs) |-> <<"|">> \o cs[k]]) \o <<"|">>

\* The cells from last to first.
Reversed(cs) == [k \in 1..Len(cs) |-> cs[Len(cs) + 1 - k]]

\* The tables of a header line of one to n cells, a separator row and a data
\* row of the same cells from last to first.
CellTables(n) ==
    { JoinCells(cs) \o <<NewLine, "-", "|", "-", NewLine>> \o JoinCells(Reversed(cs)) :
        cs \in UNION { [1..m -> CellTexts] : m \in 1..n } }

\* The cell texts in every block kind, and as the cells of tables.
CellInputs == UNION { InContext(t) : t \in CellTexts } \cup CellTables(MaxCells)

CellInit == InitWith(CellInputs)

\* The converter on texts with the characters of the replace chain.
CellSpec == CellInit /\ [][Next]_vars

\* f is h or a longer sequence that starts with h.
IsPrefix(h, f) == Len(h) <= Len(f) /\ SubSeq(f, 1, Len(h)) = h

\* C21: the converter whose table generator does not run the replace chain on
\* the cells again, run beside the real one on the same input, has emitted
\* the same markup at every step: in the row loop the table the real
\* generator would emit from the cells collected so far is the table the
\* other one would emit, the fragments pushed so far are the first fragments
\* of the other converter's run, and at the return the fragments and the
\* returned text are the other converter's.
CellPassRedundant ==
    /\ pc = "table" => TableHtml(headers, dataRows) = TableHtmlOnce(headers, dataRows)
    /\ pc \in {"scan", "table"} => IsPrefix(htmlLines, Fragments(markdown, FALSE))
    /\ pc = "done" =>
          /\ htmlLines = Fragments(markdown, FALSE)
          /\ result = ConvertOnce(markdown)

\* A conversion has returned a table whose cells held an ampersand and an en
\* dash in the input: the table has "and" and no en dash.
CellPassRedundantWitness ==
    /\ pc = "done"
    /\ Includes(markdown, "&")
    /\ Includes(markdown, EnDash)
    /\ \E k \in 1..Len(trace) :
          /\ IsRegion(k)
          /\ RowCount(k) = 1
          /\ Includes(Trim(lines[trace[k].idx + 1]), "|")
          /\ Occurrences(TableFragment(k), <<"a", "a", "n", "d", "b">>) # {}
          /\ Occurrences(TableFragment(k), <<"<", "t", "h", ">", "-", "<">>) # {}

-----------------------------------------------------------------------------
(* Two calls of the converter *)

\* How many further conversions may be started after the first two.
MaxEarlierCalls == 1

\* Inputs for two calls:
\*   '- a' / 'x'              a list closed by a paragraph
\*   '- a'                    a list still open at the end of the input
\*   'a|b' / '-|-' / 'c|d'    a table with a data row
\*   '# a' / '' / 'b|'        a header, a blank line, a candidate line alone
PairInputs == {
    <<"-", " ", "a", NewLine, "x">>,
    <<"-", " ", "a">>,
    <<"a", "|", "b", NewLine, "-", "|", "-", NewLine, "c", "|", "d">>,
    <<"#", " ", "a", NewLine, NewLine, "b", "|">>
}

\* The running call's state as a record.
Running ==
    [markdown |-> markdown, pc |-> pc, result |-> result, lines |-> lines, i |-> i,
     inList |-> inList, htmlLines |-> htmlLines, startIndex |-> startIndex,
     currentIndex |-> currentIndex, headers |-> headers, dataRows |-> dataRows,
     trace |-> trace]

\* The call in c becomes the running one.
Resume(c) ==
    /\ markdown' = c.markdown
    /\ pc' = c.pc
    /\ result' = c.result
    /\ lines' = c.lines
    /\ i' = c.i
    /\ inList' = c.inList
    /\ htmlLines' = c.htmlLines
    /\ startIndex' = c.startIndex
    /\ currentIndex' = c.currentIndex
    /\ headers' = c.headers
    /\ dataRows' = c.dataRows
    /\ trace' = c.trace

\* A call is between its first and its last step.
UnderWay(p) == p \in {"scan", "table"}

\* Switch with one list flag for both calls: the flag stays as the call that
\* stops running left it.
SwitchSharingList ==
    /\ other.pc # "absent"
    /\ Resume([other EXCEPT !.inList = inList])
    /\ other' = Running
    /\ tally' = [tally EXCEPT !.overlapped = @ \/ (UnderWay(pc) /\ UnderWay(other.pc))]
    /\ UNCHANGED <<calls, store>>

\* The running call stops where it is and the other call runs on: each call
\* keeps its own parameter, locals and position.
Switch ==
    /\ other.pc # "absent"
    /\ Resume(other)
    /\ other' = Running
    /\ tally' = [tally EXCEPT !.overlapped = @ \/ (UnderWay(pc) /\ UnderWay(other.pc))]
    /\ UNCHANGED <<calls, store>>

\* After a call has returned the converter is called again, on any input.
\* Nothing is kept from the call before; what its locals held is whatever
\* is in memory until Begin initializes the new call's locals.
CallAgain ==
    /\ pc \in {"done", "error"}
    /\ tally.converted < MaxEarlierCalls
    /\ markdown' \in PairInputs
    /\ pc' = "start"
    /\ trace' = <<>>
    /\ tally' = [tally EXCEPT !.converted = @ + 1]
    /\ UNCHANGED <<result, lines, i, inList, htmlLines, tableLocals, other, calls, store>>

PairInit ==
    /\ CallWith(PairInputs)
    /\ other \in {Suspended(md) : md \in PairInputs}
    /\ ClientAtRest

PairNext ==
    \/ Next
    \/ Switch
    \/ CallAgain

\* Two calls of the converter whose steps interleave in every way.
PairSpec == PairInit /\ [][PairNext]_vars

-----------------------------------------------------------------------------
(* C22 *)

\* C22: with two calls under way at the same time, whatever the order of
\* their steps, a call that has returned has returned what the converter
\* returns for its input when it runs alone.
OutputAsAlone ==
    /\ pc = "done" => result = Convert(markdown)
    /\ other.pc = "done" => other.result = Convert(other.markdown)

\* Two calls on different inputs have both returned, after one of them
\* stopped in the middle of its run while the other one, in the middle of
\* its run too, went on.
OutputAsAloneWitness ==
    /\ pc = "done"
    /\ other.pc = "done"
    /\ markdown # other.markdown
    /\ tally.overlapped
    /\ tally.converted = 0
    /\ result # <<>>
    /\ other.result # <<>>

-----------------------------------------------------------------------------
(* C23 *)

\* C23: two runs on the same input that have taken the same steps (both in
\* the loop, in the row loop or returned, after reading the same number of
\* lines) have read the same lines the same way and pushed the same
\* fragments in the same order, and when they have returned they have
\* returned the same text, also when one of them follows an earlier call.
Deterministic ==
    ( /\ other.pc # "absent"
      /\ markdown = other.markdown
      /\ pc = other.pc
      /\ pc \in {"scan", "table", "done"}
      /\ Len(trace) = Len(other.trace) ) =>
        /\ trace = other.trace
        /\ htmlLines = other.htmlLines
        /\ pc = "done" => result = other.result

\* Two runs on the same input have both returned a list, one of them after
\* an earlier call.
DeterministicWitness ==
    /\ other.pc = "done"
    /\ pc = "done"
    /\ markdown = other.markdown
    /\ tally.converted = 1
    /\ Occurrences(result, UlOpen) # {}

-----------------------------------------------------------------------------
(* C27 *)

\* A trimmed line that begins as a list item or as a header does.
LooksLikeBlock(line) == IsListItem(line) \/ (line # <<>> /\ Head(line) = "#")

\* A step that enters, continues or leaves a table region.
RegionStep ==
    \* list mode is false in the region and when the scanner resumes
    /\ (pc = "table" \/ pc' = "table") => ~inList'
    \* a line with a pipe that begins as a list item or a header is read as
    \* a row: its cells are collected and nothing is pushed
    /\ ( /\ pc = "table"
         /\ currentIndex < Len(lines)
         /\ IsPipeRow(Trim(lines[currentIndex + 1]))
         /\ LooksLikeBlock(Trim(lines[currentIndex + 1])) ) =>
            /\ pc' = "table"
            /\ currentIndex' = currentIndex + 1
            /\ dataRows' = Append(dataRows, CellsOf(Trim(lines[currentIndex + 1])))
            /\ htmlLines' = htmlLines
            /\ trace' = Append(trace, [idx |-> currentIndex, kind |-> "row",
                                       frag |-> Len(htmlLines)])
    \* at the end of the region one fragment is pushed, the table of the
    \* collected rows, and the scanner resumes at the line that ended it
    /\ (pc = "table" /\ pc' = "scan") =>
            /\ htmlLines' =
                  Append(htmlLines,
                         TableOpen
                         \o (IF headers = <<>> THEN <<>> ELSE RowOfCells(headers, <<"t", "h">>))
                         \o Concat([r \in 1..Len(dataRows) |->
                                       RowOfCells(dataRows[r], <<"t", "d">>)])
                         \o TableClose)
            /\ i' = currentIndex
            /\ trace' = trace

\* C27: in a table region the scanner's classification does not apply.  A
\* line after the separator that contains a pipe and begins with "- " or
\* with "#" is read by the row loop, becomes a data row of the table, opens
\* no list and emits no header; list mode is false from the table's first
\* line until the scanner resumes after the region.
RegionOwnsItsLines == [][RegionStep]_vars

\* A table has been emitted whose data rows are a line that begins with
\* "##" and a line that begins with "- ": their cells are in <td> elements
\* and no list was opened.
RegionOwnsItsLinesWitness ==
    /\ pc = "scan"
    /\ ~inList
    /\ \E k \in 1..Len(trace) :
          /\ IsRegion(k)
          /\ Returned(k)
          /\ RowCount(k) = 2
          /\ StartsWith(RowLines(k)[1], <<"#", "#", " ">>)
          /\ IsListItem(RowLines(k)[2])
          /\ Occurrences(TableFragment(k), TdOpen \o <<"#", "#", " ", "a">>) # {}
          /\ Occurrences(TableFragment(k), TdOpen \o <<"-", " ", "a">>) # {}
    /\ \A f \in 1..Len(htmlLines) : htmlLines[f] # UlOpen

-----------------------------------------------------------------------------
(* C28 *)

\* Lines the scanner's lookahead accepts as a separator row: dashes, dashes
\* and colons, one cell, outer pipes and white space.
SeparatorRows == {
    <<"-", "|", "-">>,
    <<":", "-", "|", "-", ":">>,
    <<"-", "-", "-">>,
    <<" ", "|", " ", ":", " ", "|", "-", "-", "|", " ">>
}

\* The lines ls with the line of index k replaced by line.
WithLine(ls, k, line) == [j \in 1..Len(ls) |-> IF j = k + 1 THEN line ELSE ls[j]]

\* C28: the sub-parser steps over exactly one line after the header line,
\* whatever it holds.  The line is read by no branch and by no row of the
\* loop, nothing is pushed for it, the row loop starts at the line after it;
\* and the input that has any other separator row in its place is converted
\* to the same output, so the table is the same.
SeparatorSkipped ==
    \A k \in 1..Len(trace) :
        IsRegion(k) =>
            /\ k + 1 <= Len(trace)
            /\ trace[k + 1] = [idx |-> trace[k].idx + 1, kind |-> "separator",
                               frag |-> trace[k].frag]
            /\ k + 2 <= Len(trace) => trace[k + 2].idx = trace[k].idx + 2
            /\ pc = "done" =>
                  \A sep \in SeparatorRows :
                      /\ IsSeparatorRow(Trim(sep))
                      /\ Convert(JoinLines(WithLine(lines, trace[k].idx + 1, sep))) = result

\* A conversion has returned a table with a header row and a data row whose
\* separator row was dashes and a pipe.
SeparatorSkippedWitness ==
    /\ pc = "done"
    /\ \E k \in 1..Len(trace) :
          /\ IsRegion(k)
          /\ RowCount(k) >= 1
          /\ lines[trace[k].idx + 2] = <<"-", "|", "-">>
          /\ Occurrences(TableFragment(k), ThOpen) # {}
          /\ Occurrences(TableFragment(k), TdOpen) # {}

-----------------------------------------------------------------------------
(* The client and the page operations *)
(* (ConfluenceClient in src/api/confluence-client.ts; readConfluencePage, *)
(* updateConfluencePage and createConfluencePage as in lines 273-584)     *)

\* How many calls of page operations are made in all.
MaxInvocations == 2

\* How many requests fail in all for a reason of their own.
MaxFaults == 2

\* What the remote side answers when it does not serve a request: an HTTP
\* status, or no answer at all ("network").  "409" is answered to an update
\* only, see StoreAnswer.
Faults == {"401", "403", "404", "400", "network"}

\* The answers a request can get now.
Answers == {"ok"} \cup (IF tally.failed < MaxFaults THEN Faults ELSE {})

\* The tally after answer a.
Counted(a) == [tally EXCEPT !.failed = IF a \in Faults THEN @ + 1 ELSE @]

\* handleApiError: the ConfluenceClientError made from a failed request.
HandleApiError(a) ==
    IF a = "network" THEN
        [class |-> "ConfluenceClientError", status |-> "none", code |-> "NETWORK_ERROR",
         message |-> "Network error: Unable to reach Confluence API"]
    ELSE
        [class |-> "ConfluenceClientError", status |-> a,
         code |-> CASE a = "401" -> "AUTHENTICATION_ERROR"
                    [] a = "403" -> "AUTHORIZATION_ERROR"
                    [] a = "404" -> "NOT_FOUND_ERROR"
                    [] a = "400" -> "VALIDATION_ERROR"
                    [] a = "409" -> "CONFLICT_ERROR"
                    [] OTHER -> "HTTP_500",
         message |-> CASE a = "401" -> "Authentication failed"
                       [] a = "403" -> "Access forbidden"
                       [] a = "404" -> "Resource not found"
                       [] a = "400" -> "Invalid request data"
                       [] a = "409" -> "Version conflict"
                       [] OTHER -> "Confluence API Error"]

\* A ConfluenceClientError the client makes itself, without a status.
ClientError(code, message) ==
    [class |-> "ConfluenceClientError", status |-> "none", code |-> code,
     message |-> message]

\* throw new Error(message) in a page operation: an Error has a message and
\* nothing else; inner is the message of the error quoted in it.
PlainError(message, inner) ==
    [kind |-> "thrown", class |-> "Error", status |-> "none", code |-> "none",
     message |-> message, inner |-> inner, cause |-> "none", version |-> 0]

\* The call has sent a request and waits for the answer.
Issue(call, request, at) ==
    [call EXCEPT !.pc = at,
                 !.log = Append(@, [request |-> request, answer |-> "pending"])]

\* The request the call waits for has been answered.
Answered(call, a) == [call EXCEPT !.log = [@ EXCEPT ![Len(@)].answer = a]]

\* The call ends with an exception.
Throw(call, error) == [call EXCEPT !.pc = "thrown", !.outcome = error]

\* The call returns; version is the version number of the page returned.
Return(call, version) ==
    [call EXCEPT !.pc = "returned",
                 !.outcome = [NoOutcome EXCEPT !.kind = "returned", !.version = version]]

\* /^\d+$/.test(s)
IsNumeric(s) == s # <<>> /\ \A k \in 1..Len(s) : \E d \in 1..Len(Digits) : s[k] = Digits[d]

\* s.startsWith('~')
IsPersonal(s) == StartsWith(s, <<"~">>)

\* The space keys the remote side knows, with the id of their space.
KnownSpace(key) == key = <<"K">>
SpaceIdOf(key) == <<"7">>

\* The catch block of updateConfluencePage for a ConfluenceClientError, with
\* the branch for status 409 missing.
UpdateFailureWithoutConflict(e) ==
    PlainError(CASE e.status = "404" -> "Confluence page not found for update"
                 [] e.status = "401" -> "Authentication failed when updating Confluence page"
                 [] e.status = "403" -> "Access denied when updating Confluence page"
                 [] e.status = "400" -> "Invalid update data for Confluence page"
                 [] OTHER -> "Failed to update Confluence page",
               e.message)

\* The catch block of updateConfluencePage for a ConfluenceClientError.
UpdateFailure(e) ==
    PlainError(CASE e.status = "404" -> "Confluence page not found for update"
                 [] e.status = "401" -> "Authentication failed when updating Confluence page"
                 [] e.status = "403" -> "Access denied when updating Confluence page"
                 [] e.status = "409" -> "Version conflict when updating Confluence page"
                 [] e.status = "400" -> "Invalid update data for Confluence page"
                 [] OTHER -> "Failed to update Confluence page",
               e.message)

\* The catch block of readConfluencePage for a ConfluenceClientError.
ReadFailure(e) ==
    PlainError(CASE e.status = "404" -> "Confluence page not found"
                 [] e.status = "401" -> "Authentication failed when accessing Confluence page"
                 [] e.status = "403" -> "Access denied to Confluence page"
                 [] OTHER -> "Failed to read Confluence page",
               e.message)

\* The catch block of createConfluencePage for a ConfluenceClientError.
CreateFailure(e) ==
    PlainError(CASE e.status = "400" -> "Invalid data when creating Confluence page"
                 [] e.status = "401" -> "Authentication failed when creating Confluence page"
                 [] e.status = "403" -> "Access denied when creating page in space"
                 [] OTHER -> "Failed to create Confluence page",
               e.message)

\* The catch block of a page operation for an exception that is no
\* ConfluenceClientError: an Error with the given message, thrown inside the
\* operation, which quotes the message of the error it was made from
\* (cause) if there was one.
Unexpected(call, message, cause) ==
    [PlainError(CASE call.op = "read" -> "Unexpected error reading Confluence page"
                  [] call.op = "update" -> "Unexpected error updating Confluence page"
                  [] OTHER -> "Unexpected error creating Confluence page",
                message)
     EXCEPT !.cause = cause]

\* A ConfluenceClientError that reaches the caller as it is.
Rethrown(e) ==
    [kind |-> "thrown", class |-> e.class, status |-> e.status, code |-> e.code,
     message |-> e.message, inner |-> "none", cause |-> "none", version |-> 0]

\* The catch block of the call's operation for a ConfluenceClientError; a
\* client method called on its own has none.
Failure(call, e) ==
    CASE call.op = "read" -> ReadFailure(e)
      [] call.op = "update" -> UpdateFailure(e)
      [] call.op = "create" -> CreateFailure(e)
      [] OTHER -> Rethrown(e)

\* updateData with the version number of the page as fetched.
UpdateDataSameVersion(call, existing) ==
    [title |-> IF call.title # <<>> THEN call.title ELSE existing.title,
     spaceId |-> existing.spaceId,
     spaceIdType |-> "string",
     version |-> existing.version,
     body |-> Convert(call.content)]

\* updateData of updateConfluencePage, from the parameters and the page
\* fetched.
UpdateData(call, existing) ==
    [title |-> IF call.title # <<>> THEN call.title ELSE existing.title,
     spaceId |-> existing.spaceId,
     spaceIdType |-> "string",
     version |-> existing.version + 1,
     body |-> Convert(call.content)]

\* getSpaceIdByKey is called for key, from the place named by what: the
\* first request goes to the spaces endpoint.
StartLookup(call, key, what) ==
    Issue([call EXCEPT !.lookupKey = key, !.lookupFor = what, !.firstError = "none"],
          "GET /spaces", "spaces")

\* CreateSend without the checks of the spaceId: it is sent as given.
CreateSendUnchecked(call) ==
    LET spaceId == call.resolvedSpaceId
        body == IF call.op = "createPage" THEN call.content ELSE Convert(call.content)
    IN  IF spaceId = <<>> \/ call.title = <<>> \/ body = <<>> THEN
            Throw(call, Failure(call, ClientError("VALIDATION_ERROR", "Page data is incomplete")))
        ELSE
            Issue([call EXCEPT !.request =
                      [title |-> call.title, spaceId |-> spaceId,
                       spaceIdType |-> IF IsNumeric(spaceId) THEN "number" ELSE "string",
                       version |-> 0, body |-> body]],
                  "POST /pages", "postPage")

\* The client's createPage (lines 328-433 of the client): the checks of
\* pageData and of the spaceId, then the request.  The body is the converted
\* content when createConfluencePage calls, and the body given when the
\* method is called on its own.
CreateSend(call) ==
    LET spaceId == call.resolvedSpaceId
        body == IF call.op = "createPage" THEN call.content ELSE Convert(call.content)
    IN  IF spaceId = <<>> \/ call.title = <<>> \/ body = <<>> THEN
            Throw(call, Failure(call, ClientError("VALIDATION_ERROR", "Page data is incomplete")))
        ELSE IF ~IsNumeric(spaceId) THEN
            Throw(call, Failure(call, ClientError("VALIDATION_ERROR", "Invalid spaceId format")))
        ELSE
            Issue([call EXCEPT !.request =
                      [title |-> call.title, spaceId |-> spaceId, spaceIdType |-> "number",
                       version |-> 0, body |-> body]],
                  "POST /pages", "postPage")

\* createConfluencePage from the test of resolvedSpaceId on (lines 507-546).
AfterResolve(call) ==
    LET r == call.resolvedSpaceId
    IN  IF r = <<>> THEN
            Throw(call, Unexpected(call, "Space ID is required. Could not resolve from space key.", "none"))
        ELSE IF ~IsNumeric(r) /\ ~IsPersonal(r) THEN
            StartLookup(call, r, "numeric")
        ELSE IF IsPersonal(r) THEN
            Throw(call, Unexpected(call, "Personal space key cannot be used directly", "none"))
        ELSE CreateSend(call)

\* readConfluencePage from the choice of the fetch on (lines 301-307).
ReadFetch(call) ==
    IF call.pageId # <<>> THEN Issue(call, "GET /pages/{id}", "getPage")
    ELSE IF call.resolvedSpaceId # <<>> /\ call.title # <<>> THEN
        Issue(call, "GET /pages", "search")
    ELSE Throw(call, Unexpected(call, "Invalid parameters: need pageId or spaceId/spaceKey + title", "none"))

\* getSpaceIdByKey has returned id.
LookupDone(call, id) ==
    LET next == [call EXCEPT !.resolvedSpaceId = id]
    IN  IF call.op = "read" THEN ReadFetch(next)
        ELSE IF call.lookupFor = "resolve" THEN AfterResolve(next)
        ELSE CreateSend(next)

\* getSpaceIdByKey has thrown e.
LookupFailed(call, e) ==
    IF call.op = "read" THEN
        Throw(call, Unexpected(call, "Failed to resolve space key", e.message))
    ELSE IF call.lookupFor = "numeric" THEN
        Throw(call, Unexpected(call, "Invalid space identifier", e.message))
    ELSE IF IsPersonal(call.spaceKey) THEN
        Throw(call, Unexpected(call, "Personal space key cannot be used directly", e.message))
    ELSE AfterResolve([call EXCEPT !.resolvedSpaceId = call.spaceKey])

\* The error getSpaceIdByKey throws when no endpoint gave an id.
SpaceLookupError == ClientError("SPACE_LOOKUP_ERROR", "Failed to find space with key")

\* The parameters the page operations are called with: a text or nothing
\* for each parameter; the page id of the stored page, the id and the key of
\* its space, a personal space key.
UpdateCalls ==
    { [IdleCall EXCEPT !.op = "update", !.pc = "called",
                       !.pageId = p, !.title = t, !.content = k] :
        p \in {<<>>, <<"1">>}, t \in {<<>>, <<"N">>}, k \in {<<>>, <<"x">>} }

ReadCalls ==
    { [IdleCall EXCEPT !.op = "read", !.pc = "called",
                       !.pageId = p, !.spaceId = s, !.spaceKey = y, !.title = t] :
        p \in {<<>>, <<"1">>}, s \in {<<>>, <<"7">>}, y \in {<<>>, <<"K">>},
        t \in {<<>>, <<"T">>} }

CreateCalls ==
    { [IdleCall EXCEPT !.op = "create", !.pc = "called",
                       !.spaceId = s, !.spaceKey = y, !.title = t, !.content = k] :
        s \in {<<>>, <<"7">>, <<"~", "m">>}, y \in {<<>>, <<"K">>, <<"Q">>, <<"~", "m">>},
        t \in {<<>>, <<"N">>}, k \in {<<>>, <<"x">>} }

\* The client's createPage called on its own, with a spaceId that is
\* missing, numeric, a space key, a personal space key, or digits and a
\* letter.
CreatePageCalls ==
    { [IdleCall EXCEPT !.op = "createPage", !.pc = "called",
                       !.spaceId = s, !.title = t, !.content = k] :
        s \in {<<>>, <<"7">>, <<"K">>, <<"~", "m">>, <<"7", "a">>},
        t \in {<<>>, <<"N">>}, k \in {<<>>, <<"x">>} }

\* The first caller calls any operation with any parameters, the second
\* one updates the stored page.
CallsOf(c) ==
    IF c = 1 THEN UpdateCalls \cup ReadCalls \cup CreateCalls \cup CreatePageCalls
    ELSE {call \in UpdateCalls : call.pageId # <<>> /\ call.content # <<>>}

\* The variables a step of call c leaves alone besides the converter's.
Elsewhere == <<conversion, other>>

\* A page operation is called.
Invoke(c) ==
    /\ calls[c].pc \in {"idle", "returned", "thrown"}
    /\ tally.invoked < MaxInvocations
    /\ \E call \in CallsOf(c) : calls' = [calls EXCEPT ![c] = call]
    /\ tally' = [tally EXCEPT !.invoked = @ + 1]
    /\ UNCHANGED <<Elsewhere, store>>

\* UpdateCalled with the content tested only after the page is fetched.
UpdateCalledFetchingFirst(c) ==
    LET call == calls[c]
    IN  /\ call.pc = "called"
        /\ call.op = "update"
        /\ calls' = [calls EXCEPT ![c] =
              IF call.pageId = <<>> THEN
                  Throw(call, PlainError("Page ID is required and must be a string", "none"))
              ELSE Issue(call, "GET /pages/{id}", "getPage")]
        /\ UNCHANGED <<Elsewhere, store, tally>>

\* updateConfluencePage up to its first request (lines 395-407).
UpdateCalled(c) ==
    LET call == calls[c]
    IN  /\ call.pc = "called"
        /\ call.op = "update"
        /\ calls' = [calls EXCEPT ![c] =
              IF call.pageId = <<>> THEN
                  Throw(call, PlainError("Page ID is required and must be a string", "none"))
              ELSE IF call.content = <<>> THEN
                  Throw(call, PlainError("Content is required and must be a string", "none"))
              ELSE Issue(call, "GET /pages/{id}", "getPage")]
        /\ UNCHANGED <<Elsewhere, store, tally>>

\* readConfluencePage up to its first request (lines 276-307).
ReadCalled(c) ==
    LET call == calls[c]
    IN  /\ call.pc = "called"
        /\ call.op = "read"
        /\ calls' = [calls EXCEPT ![c] =
              IF /\ call.pageId = <<>>
                 /\ ~(call.spaceId # <<>> /\ call.title # <<>>)
                 /\ ~(call.spaceKey # <<>> /\ call.title # <<>>)
              THEN Throw(call, PlainError("Either pageId, or both spaceId and title, or both spaceKey and title are required", "none"))
              ELSE IF call.spaceKey # <<>> /\ call.spaceId = <<>> THEN
                  StartLookup(call, call.spaceKey, "resolve")
              ELSE ReadFetch([call EXCEPT !.resolvedSpaceId = call.spaceId])]
        /\ UNCHANGED <<Elsewhere, store, tally>>

\* createConfluencePage up to its first request (lines 468-546).
CreateCalled(c) ==
    LET call == calls[c]
    IN  /\ call.pc = "called"
        /\ call.op = "create"
        /\ calls' = [calls EXCEPT ![c] =
              IF call.spaceId = <<>> /\ call.spaceKey = <<>> THEN
                  Throw(call, PlainError("Either spaceId or spaceKey is required", "none"))
              ELSE IF call.title = <<>> THEN
                  Throw(call, PlainError("Title is required and must be a string", "none"))
              ELSE IF call.content = <<>> THEN
                  Throw(call, PlainError("Content is required and must be a string", "none"))
              ELSE IF call.spaceKey # <<>> /\ call.spaceId = <<>> THEN
                  StartLookup(call, call.spaceKey, "resolve")
              ELSE AfterResolve([call EXCEPT !.resolvedSpaceId = call.spaceId])]
        /\ UNCHANGED <<Elsewhere, store, tally>>

\* The client's createPage is called on its own.
CreatePageCalled(c) ==
    LET call == calls[c]
    IN  /\ call.pc = "called"
        /\ call.op = "createPage"
        /\ calls' = [calls EXCEPT ![c] =
              CreateSend([call EXCEPT !.resolvedSpaceId = call.spaceId])]
        /\ UNCHANGED <<Elsewhere, store, tally>>

\* The spaces endpoint answers getSpaceIdByKey's first request (lines
\* 523-541 of the client): an id is returned, no space is found, or the
\* request fails and the second endpoint is asked.
SpacesAnswered(c) ==
    LET call == calls[c]
    IN  /\ call.pc = "spaces"
        /\ \E a \in Answers :
              /\ tally' = Counted(a)
              /\ calls' = [calls EXCEPT ![c] =
                  IF a = "ok" THEN
                      IF KnownSpace(call.lookupKey)
                      THEN LookupDone(Answered(call, a), SpaceIdOf(call.lookupKey))
                      ELSE LookupFailed(Answered(call, a), SpaceLookupError)
                  ELSE Issue([Answered(call, a) EXCEPT !.firstError = a],
                             "GET /rest/api/space", "spaceV1")]
        /\ UNCHANGED <<Elsewhere, store>>

\* The second endpoint answers (lines 542-574 of the client): an id is
\* returned, no space is found, or the request fails and the error of the
\* first request is thrown.
SpaceV1Answered(c) ==
    LET call == calls[c]
    IN  /\ call.pc = "spaceV1"
        /\ \E a \in Answers :
              /\ tally' = Counted(a)
              /\ calls' = [calls EXCEPT ![c] =
                  IF a = "ok" THEN
                      IF KnownSpace(call.lookupKey)
                      THEN LookupDone(Answered(call, a), SpaceIdOf(call.lookupKey))
                      ELSE LookupFailed(Answered(call, a), SpaceLookupError)
                  ELSE LookupFailed(Answered(call, a), HandleApiError(call.firstError))]
        /\ UNCHANGED <<Elsewhere, store>>

\* getPageById is answered: readConfluencePage returns the page;
\* updateConfluencePage builds updateData and calls updatePage, which checks
\* the version number and sends the write (lines 290-324 of the client).
GetPageAnswered(c) ==
    LET call == calls[c]
    IN  /\ call.pc = "getPage"
        /\ \E a \in Answers :
              /\ tally' = Counted(a)
              /\ calls' = [calls EXCEPT ![c] =
                  IF a # "ok" THEN
                      Throw(Answered(call, a), Failure(call, HandleApiError(a)))
                  ELSE IF call.op = "read" THEN
                      Return([Answered(call, a) EXCEPT !.existingPage = store.page],
                             store.page.version)
                  ELSE IF UpdateData(call, store.page).version = 0 THEN
                      Throw(Answered(call, a),
                            Failure(call, ClientError("VALIDATION_ERROR",
                                                      "Version number is required")))
                  ELSE Issue([Answered(call, a) EXCEPT
                                 !.existingPage = store.page,
                                 !.request = UpdateData(call, store.page)],
                             "PUT /pages/{id}", "putPage")]
        /\ UNCHANGED <<Elsewhere, store>>

\* getPageByTitle is answered (lines 269-287 of the client).
SearchAnswered(c) ==
    LET call == calls[c]
    IN  /\ call.pc = "search"
        /\ \E a \in Answers :
              /\ tally' = Counted(a)
              /\ calls' = [calls EXCEPT ![c] =
                  IF a # "ok" THEN
                      Throw(Answered(call, a), Failure(call, HandleApiError(a)))
                  ELSE IF store.page.spaceId = call.resolvedSpaceId
                          /\ store.page.title = call.title THEN
                      Return([Answered(call, a) EXCEPT !.existingPage = store.page],
                             store.page.version)
                  ELSE Throw(Answered(call, a),
                             Failure(call, [class |-> "ConfluenceClientError",
                                            status |-> "404", code |-> "NOT_FOUND_ERROR",
                                            message |-> "Page with title not found in space"]))]
        /\ UNCHANGED <<Elsewhere, store>>

\* What the remote store answers to a write when nothing else fails: it
\* applies a write whose version number is one more than the stored one and
\* answers any other with a version conflict.
StoreAnswer(request) ==
    IF request.version = store.page.version + 1 THEN "ok" ELSE "409"

\* PutPageAnswered when the operation fetches the page and writes again
\* after a version conflict.
PutPageAnsweredRetrying(c) ==
    LET call == calls[c]
    IN  /\ call.pc = "putPage"
        /\ \E a \in (Answers \ {"ok"}) \cup {StoreAnswer(call.request)} :
              /\ calls' = [calls EXCEPT ![c] =
                    IF a = "ok" THEN Return(Answered(call, a), call.request.version)
                    ELSE IF a = "409" THEN Issue(Answered(call, a), "GET /pages/{id}", "getPage")
                    ELSE Throw(Answered(call, a), Failure(call, HandleApiError(a)))]
              /\ store' = IF a = "ok"
                          THEN [store EXCEPT !.page.title = call.request.title,
                                             !.page.version = call.request.version,
                                             !.page.body = call.request.body]
                          ELSE store
              /\ tally' = IF a = "ok" THEN [tally EXCEPT !.succeeded = @ + 1] ELSE Counted(a)
        /\ UNCHANGED Elsewhere

\* The write is answered: updateConfluencePage returns success with the
\* version number of the page the store returns, or throws (lines 423-462).
PutPageAnswered(c) ==
    LET call == calls[c]
    IN  /\ call.pc = "putPage"
        /\ \E a \in (Answers \ {"ok"}) \cup {StoreAnswer(call.request)} :
              /\ calls' = [calls EXCEPT ![c] =
                    IF a = "ok" THEN Return(Answered(call, a), call.request.version)
                    ELSE Throw(Answered(call, a), Failure(call, HandleApiError(a)))]
              /\ store' = IF a = "ok"
                          THEN [store EXCEPT !.page.title = call.request.title,
                                             !.page.version = call.request.version,
                                             !.page.body = call.request.body]
                          ELSE store
              /\ tally' = IF a = "ok" THEN [tally EXCEPT !.succeeded = @ + 1] ELSE Counted(a)
        /\ UNCHANGED Elsewhere

\* The create request is answered (lines 433-502 of the client, 546-583).
PostAnswered(c) ==
    LET call == calls[c]
    IN  /\ call.pc = "postPage"
        /\ \E a \in Answers :
              /\ tally' = Counted(a)
              /\ calls' = [calls EXCEPT ![c] =
                    IF a = "ok" THEN Return(Answered(call, a), 1)
                    ELSE Throw(Answered(call, a), Failure(call, HandleApiError(a)))]
              /\ store' = IF a = "ok" THEN [store EXCEPT !.created = @ + 1] ELSE store
        /\ UNCHANGED Elsewhere

\* No conversion is under way as a call of its own: the page operations
\* convert by Convert.
ClientInit ==
    /\ markdown = <<>>
    /\ pc = "absent"
    /\ result = <<>>
    /\ lines = <<>>
    /\ i = 0
    /\ inList = FALSE
    /\ htmlLines = <<>>
    /\ startIndex = 0
    /\ currentIndex = 0
    /\ headers = <<>>
    /\ dataRows = <<>>
    /\ trace = <<>>
    /\ other = Absent
    /\ ClientAtRest

ClientNext ==
    \E c \in CallIds :
        \/ Invoke(c)
        \/ UpdateCalled(c)
        \/ ReadCalled(c)
        \/ CreateCalled(c)
        \/ CreatePageCalled(c)
        \/ SpacesAnswered(c)
        \/ SpaceV1Answered(c)
        \/ GetPageAnswered(c)
        \/ SearchAnswered(c)
        \/ PutPageAnswered(c)
        \/ PostAnswered(c)

\* Page operations called at any time, two at a time, against one store.
ClientSpec == ClientInit /\ [][ClientNext]_vars

\* The last request of a call, and whether the call has issued any.
LastRequest(call) == call.log[Len(call.log)]

-----------------------------------------------------------------------------
\* C30: every write request of updateConfluencePage carries the version
\* number of the page fetched earlier in the same call plus one, the spaceId
\* of that page, and the title given by the caller or, when none is given,
\* the fetched title; and the stored version has grown by exactly one for
\* each update that reported success.
WriteCarriesNextVersion ==
    /\ \A c \in CallIds :
          LET call == calls[c]
          IN  (call.log # <<>> /\ LastRequest(call).request = "PUT /pages/{id}") =>
                  /\ call.op = "update"
                  /\ Len(call.log) = 2
                  /\ call.log[1] = [request |-> "GET /pages/{id}", answer |-> "ok"]
                  /\ call.existingPage # NoPage
                  /\ call.request.version = call.existingPage.version + 1
                  /\ call.request.spaceId = call.existingPage.spaceId
                  /\ call.title # <<>> => call.request.title = call.title
                  /\ call.title = <<>> => call.request.title = call.existingPage.title
    /\ store.page.version = InitialPage.version + tally.succeeded

\* Two updates have succeeded one after the other, the later one with a
\* title of its own, and a third write is under way.
WriteCarriesNextVersionWitness ==
    /\ tally.succeeded = 2
    /\ store.page.version = 3
    /\ \E c \in CallIds :
          /\ calls[c].pc = "returned"
          /\ calls[c].request.version = 3
          /\ calls[c].title = <<"N">>
          /\ calls[c].existingPage.title = <<"T">>
    /\ \E c \in CallIds :
          /\ calls[c].pc = "returned"
          /\ calls[c].request.version = 2
          /\ calls[c].title = <<>>
          /\ calls[c].request.title = <<"T">>

-----------------------------------------------------------------------------
\* C29: when the store answers the write of updateConfluencePage with a
\* version conflict, the call has ended with an error after exactly one
\* fetch and exactly one write: no request follows the refused write, and
\* the call does not return.
ConflictEndsTheCall ==
    \A c \in CallIds :
        LET call == calls[c]
        IN  (\E k \in 1..Len(call.log) : call.log[k].answer = "409") =>
                /\ call.op = "update"
                /\ call.log = << [request |-> "GET /pages/{id}", answer |-> "ok"],
                                 [request |-> "PUT /pages/{id}", answer |-> "409"] >>
                /\ call.pc = "thrown"
                /\ call.outcome.kind = "thrown"
                /\ call.outcome.class = "Error"

\* A write was refused with a version conflict, after the other caller's
\* update succeeded.
ConflictEndsTheCallWitness ==
    \E c \in CallIds :
        /\ Len(calls[c].log) = 2
        /\ calls[c].log[2].answer = "409"
        /\ calls[c].pc = "thrown"
        /\ calls[3 - c].pc = "returned"
        /\ calls[3 - c].op = "update"

-----------------------------------------------------------------------------
\* C24: when two calls of updateConfluencePage have fetched the same version
\* of the page and one of them has reported success, the other one does not
\* report success, and when its write was answered by the store it was
\* answered with a version conflict and the call ends with the version
\* conflict error; and a call that reports success had its write applied to
\* the very version it fetched.
ConflictStep ==
    \A c \in CallIds :
        LET mine == calls[c]
            after == calls'[c]
            theirs == calls[3 - c]
        IN  (mine.pc = "putPage" /\ after.pc # "putPage") =>
                /\ after.pc \in {"returned", "thrown"}
                /\ after.pc = "returned" =>
                      /\ store.page.version = mine.existingPage.version
                      /\ store'.page.version = mine.existingPage.version + 1
                      /\ store'.page.body = mine.request.body
                      /\ after.outcome.version = mine.existingPage.version + 1
                /\ after.pc = "thrown" => store' = store
                /\ (/\ theirs.op = "update"
                    /\ theirs.pc = "returned"
                    /\ theirs.existingPage.version = mine.existingPage.version) =>
                      /\ after.pc = "thrown"
                      /\ LastRequest(after).answer \notin Faults =>
                            /\ LastRequest(after).answer = "409"
                            /\ after.outcome.message =
                                  "Version conflict when updating Confluence page"

OneUpdateWins == [][ConflictStep]_vars

\* Both callers fetched version 1 before either wrote; one has reported
\* success and the other has ended with the version conflict error.
OneUpdateWinsWitness ==
    \E c \in CallIds :
        /\ calls[c].op = "update"
        /\ calls[3 - c].op = "update"
        /\ calls[c].existingPage.version = 1
        /\ calls[3 - c].existingPage.version = 1
        /\ calls[c].outcome.kind = "returned"
        /\ calls[3 - c].pc = "thrown"
        /\ calls[3 - c].outcome.message = "Version conflict when updating Confluence page"
        /\ store.page.version = 2

-----------------------------------------------------------------------------
\* C25: within one call of a page operation no request is issued after a
\* request of that call has failed: every request but the last one of a call
\* was answered without a failure.
NoRequestAfterFailure ==
    \A c \in CallIds :
        \A k \in 1..Len(calls[c].log) :
            k < Len(calls[c].log) => calls[c].log[k].answer = "ok"

-----------------------------------------------------------------------------
\* C26: a call of a page operation that ended because its last request met
\* one of the six failure conditions has thrown an error that carries the
\* code of that condition (and so differs from the errors of the other five).
FailuresCarryCodes ==
    \A c \in CallIds :
        LET call == calls[c]
        IN  (/\ call.op \in {"read", "update", "create"}
             /\ call.pc = "thrown"
             /\ call.log # <<>>
             /\ LastRequest(call).answer \in Faults \cup {"409"}) =>
                call.outcome.code =
                    CASE LastRequest(call).answer = "401" -> "AUTHENTICATION_ERROR"
                      [] LastRequest(call).answer = "403" -> "AUTHORIZATION_ERROR"
                      [] LastRequest(call).answer = "404" -> "NOT_FOUND_ERROR"
                      [] LastRequest(call).answer = "400" -> "VALIDATION_ERROR"
                      [] LastRequest(call).answer = "409" -> "CONFLICT_ERROR"
                      [] OTHER -> "NETWORK_ERROR"

-----------------------------------------------------------------------------
\* The arguments of an update or create call that the operation refuses.
Refused(call) ==
    \/ call.op = "update" /\ (call.pageId = <<>> \/ call.content = <<>>)
    \/ /\ call.op = "create"
       /\ \/ call.spaceId = <<>> /\ call.spaceKey = <<>>
          \/ call.title = <<>>
          \/ call.content = <<>>

\* C31: a call of updateConfluencePage without pageId or with empty content,
\* and a call of createConfluencePage with neither spaceId nor spaceKey,
\* without title or with empty content, ends in its first step by throwing
\* an Error; it has issued no request then or later, and its step leaves
\* the store as it was.
ValidationStep ==
    \A c \in CallIds :
        Refused(calls'[c]) =>
            /\ calls'[c].log = <<>>
            /\ calls'[c].pc \in {"called", "thrown"}
            /\ calls'[c].pc = "thrown" =>
                  /\ calls'[c].outcome.kind = "thrown"
                  /\ calls'[c].outcome.class = "Error"
            /\ (calls[c].pc = "called" /\ calls'[c] # calls[c]) =>
                  /\ calls[c].log = <<>>
                  /\ calls'[c].pc = "thrown"
                  /\ store' = store

ValidationBeforeRequests == [][ValidationStep]_vars

\* An update call with empty content has thrown without a request, while
\* the other caller's update has fetched the page and waits for its write;
\* the stored page is as it was.
ValidationBeforeRequestsWitness ==
    /\ calls[1].op = "update"
    /\ calls[1].pageId = <<"1">>
    /\ calls[1].content = <<>>
    /\ calls[1].pc = "thrown"
    /\ calls[1].log = <<>>
    /\ calls[2].pc = "putPage"
    /\ store = InitialStore

-----------------------------------------------------------------------------
\* C32: a create request is sent only with a spaceId of digits, as a
\* number; a call of the client's createPage whose spaceId is any other
\* non-empty string, a personal space key included, has thrown a
\* VALIDATION_ERROR without issuing a request.
NumericSpaceIdOnly ==
    \A c \in CallIds :
        LET call == calls[c]
        IN  /\ \A k \in 1..Len(call.log) :
                  call.log[k].request = "POST /pages" =>
                      /\ call.request.spaceIdType = "number"
                      /\ call.request.spaceId # <<>>
                      /\ \A d \in 1..Len(call.request.spaceId) :
                            call.request.spaceId[d] \in
                                {"0", "1", "2", "3", "4", "5", "6", "7", "8", "9"}
            /\ (/\ call.op = "createPage"
                /\ call.pc # "called"
                /\ call.spaceId \in {<<"K">>, <<"~", "m">>, <<"7", "a">>}) =>
                      /\ call.pc = "thrown"
                      /\ call.log = <<>>
                      /\ call.outcome.class = "ConfluenceClientError"
                      /\ call.outcome.code = "VALIDATION_ERROR"
            /\ (/\ call.op = "createPage"
                /\ call.pc # "called"
                /\ call.spaceId = <<"7">>
                /\ call.title # <<>>
                /\ call.content # <<>>) =>
                      /\ call.log # <<>>
                      /\ call.log[1].request = "POST /pages"
                      /\ call.request.spaceId = <<"7">>

\* The client's createPage, called with a personal space key, a title and a
\* body, has thrown a VALIDATION_ERROR and issued no request.
NumericSpaceIdOnlyWitness ==
    \E c \in CallIds :
        /\ calls[c].op = "createPage"
        /\ calls[c].spaceId = <<"~", "m">>
        /\ calls[c].title = <<"N">>
        /\ calls[c].content = <<"x">>
        /\ calls[c].pc = "thrown"
        /\ calls[c].log = <<>>
        /\ calls[c].outcome.code = "VALIDATION_ERROR"

-----------------------------------------------------------------------------
(* The converter on lines at the edges of the line patterns *)

\* How many lines the inputs of EdgeSpec have at most.
MaxEdgeLines == 3

\* Lines that are blank, that have a marker and nothing after it, that hold
\* paragraph tags as text, and the lines of a list and of a table.
EdgeLines == {
    <<>>,
    <<"-", " ", "a">>,
    <<"-", " ">>,
    <<"#", " ">>,
    <<"#", " ", "a">>,
    <<"|", "<", "p", ">">>,
    <<"-", "|", "-">>,
    <<"<", "/", "p", ">">>,
    <<"a", "<", "p", ">">>
}

EdgeInputs == Texts(EdgeLines, MaxEdgeLines)

EdgeInit == InitWith(EdgeInputs)

\* The converter on texts made of the lines above.
EdgeSpec == EdgeInit /\ [][Next]_vars

-----------------------------------------------------------------------------
\* C33: the final cleanup changes nothing: the fragments emitted, joined,
\* never begin with </p> and never end with <p>, and the string returned is
\* the plain concatenation of the fragments.
CleanupIsIdentity ==
    /\ ~StartsWith(Concat(htmlLines), <<"<", "/", "p", ">">>)
    /\ ~EndsWith(Concat(htmlLines), <<"<", "p", ">">>)
    /\ pc = "done" => result = Concat(htmlLines)

\* A conversion has returned for an input whose first line is the text </p>
\* and whose last line ends with the text <p>.
CleanupIsIdentityWitness ==
    /\ pc = "done"
    /\ Len(lines) = 2
    /\ lines[1] = <<"<", "/", "p", ">">>
    /\ lines[2] = <<"a", "<", "p", ">">>
    /\ result = <<"<", "p", ">", "<", "/", "p", ">", "<", "/", "p", ">",
                  "<", "p", ">", "a", "<", "p", ">", "<", "/", "p", ">">>

-----------------------------------------------------------------------------
\* The list-opens minus the list-closes among the fragments h.
ListDepth(h) ==
    Cardinality({k \in 1..Len(h) : h[k] = <<"<", "u", "l", ">">>})
    - Cardinality({k \in 1..Len(h) : h[k] = <<"<", "/", "u", "l", ">">>})

\* Every list-item fragment of h comes after a list-open that no list-close
\* has followed, and no list-open comes after another one without a
\* list-close between them.
ItemsInsideLists(h) ==
    /\ \A k \in 0..Len(h) : ListDepth(SubSeq(h, 1, k)) \in {0, 1}
    /\ \A k \in 1..Len(h) :
          StartsWith(h[k], <<"<", "l", "i", ">">>) => ListDepth(SubSeq(h, 1, k - 1)) = 1

-----------------------------------------------------------------------------
\* C35: when the sub-parser, entered at index s, returns, the index r it
\* returns (the scanner resumes at r + 1) satisfies s + 1 <= r <= number of
\* lines - 1, and the lines s..r are exactly the ones it has consumed: the
\* header line s, the line s + 1 and the rows up to r; while it runs its
\* cursor stays within s + 2 .. number of lines, and it reads a line only at
\* a cursor below the number of lines.
ReturnStep ==
    /\ pc' = "table" =>
          /\ startIndex' + 2 <= currentIndex'
          /\ currentIndex' <= Len(lines')
          /\ currentIndex' = Len(trace')
    /\ (pc = "table" /\ currentIndex' # currentIndex /\ pc' = "table") =>
          currentIndex < Len(lines)
    /\ pc' # "error"
    /\ (pc = "table" /\ pc' = "scan") =>
          LET s == startIndex
              r == i' - 1
          IN  /\ s + 1 <= r
              /\ r <= Len(lines) - 1
              /\ i' > i
              /\ i = s
              /\ Len(trace) = r + 1
              /\ trace[s + 1].kind = "table"
              /\ trace[s + 2].kind = "separator"
              /\ \A k \in (s + 3)..(r + 1) : trace[k].kind = "row"
              /\ \A k \in 1..Len(trace) : trace[k].idx = k - 1

ReturnedIndexInRange == [][ReturnStep]_vars

\* The sub-parser, entered at the first line, has consumed the header line,
\* the line after it and one row, which is the last line of the input, and
\* has returned the index of that row.
ReturnedIndexInRangeWitness ==
    /\ pc = "scan"
    /\ Len(lines) = 3
    /\ i = 3
    /\ Len(trace) = 3
    /\ trace[1].kind = "table"
    /\ trace[2].kind = "separator"
    /\ trace[3].kind = "row"
    /\ Len(htmlLines) = 1

-----------------------------------------------------------------------------
\* A non-empty line made of the one character ch.
OnlyOf(line, ch) == line # <<>> /\ \A c \in 1..Len(line) : line[c] = ch

\* The elements emitted for the lines read so far have content between
\* their tags.
ElementsHaveContent ==
    \A k \in 1..Len(trace) :
        LET e == trace[k]
        IN  /\ e.kind = "header" =>
                  /\ htmlLines[e.frag] \notin
                        { <<"<", "h", "1", ">", "<", "/", "h", "1", ">">>,
                          <<"<", "h", "2", ">", "<", "/", "h", "2", ">">>,
                          <<"<", "h", "3", ">", "<", "/", "h", "3", ">">> }
                  /\ Len(htmlLines[e.frag]) > 9
            /\ e.kind = "item" =>
                  /\ htmlLines[e.frag] # <<"<", "l", "i", ">", "<", "/", "l", "i", ">">>
                  /\ Len(htmlLines[e.frag]) > 9
            /\ e.kind \in {"paragraph", "pipeText"} =>
                  /\ htmlLines[e.frag] # <<"<", "p", ">", "<", "/", "p", ">">>
                  /\ Len(htmlLines[e.frag]) > 7

\* The line of event k was emitted as a paragraph that holds the trimmed
\* line.
EmittedAsParagraph(k) ==
    /\ trace[k].kind = "paragraph"
    /\ htmlLines[trace[k].frag] =
          <<"<", "p", ">">> \o Trim(lines[trace[k].idx + 1]) \o <<"<", "/", "p", ">">>

\* C36 as stated: every header, list-item and paragraph element emitted has
\* content between its tags; and a line that, trimmed, is made of '#' only
\* or of '-' only is emitted as a paragraph.
NonEmptyElements ==
    /\ ElementsHaveContent
    /\ \A k \in 1..Len(trace) :
          LET line == Trim(lines[trace[k].idx + 1])
          IN  (OnlyOf(line, "#") \/ OnlyOf(line, "-")) => EmittedAsParagraph(k)

\* C36: every header, list-item and paragraph element emitted has content
\* between its tags; a line that, trimmed, is made of '#' only is emitted as
\* a paragraph, and so is a line made of '-' only unless it is the line after
\* a table-candidate line, where it is the separator row of a table and
\* emits nothing.
NonEmptyElementsOrSeparator ==
    /\ ElementsHaveContent
    /\ \A k \in 1..Len(trace) :
          LET line == Trim(lines[trace[k].idx + 1])
          IN  /\ OnlyOf(line, "#") => EmittedAsParagraph(k)
              /\ OnlyOf(line, "-") =>
                    \/ EmittedAsParagraph(k)
                    \/ /\ trace[k].kind = "separator"
                       /\ k > 1
                       /\ trace[k - 1].kind = "table"
                       /\ Includes(Trim(lines[trace[k].idx]), "|")

\* The line '- ' after a table-candidate line was taken as a separator row,
\* and the line '- ' after it was emitted as the paragraph <p>-</p>.
NonEmptyElementsOrSeparatorWitness ==
    /\ pc = "done"
    /\ lines = << <<"|", "<", "p", ">">>, <<"-", " ">>, <<"-", " ">> >>
    /\ trace[2].kind = "separator"
    /\ trace[3].kind = "paragraph"
    /\ Len(htmlLines) = 2
    /\ htmlLines[2] = <<"<", "p", ">", "-", "<", "/", "p", ">">>

-----------------------------------------------------------------------------
(* The converter on texts with runs of blank lines *)

\* How many lines the inputs of BlankSpec have at most.
MaxBlankLines == 4

\* An empty line, a line of white space, and the lines that can stand
\* before and after them: a list item, a header, a table-candidate line, and
\* a line that is a separator row after such a line and a paragraph
\* elsewhere.
LinesAroundBlanks == {
    <<>>,
    <<" ">>,
    <<"-", " ", "a">>,
    <<"#", " ", "a">>,
    <<"|", "a">>,
    <<"-", "|", "-">>
}

BlankInputs == Texts(LinesAroundBlanks, MaxBlankLines)

BlankInit == InitWith(BlankInputs)

\* The converter on texts of the lines above.
BlankSpec == BlankInit /\ [][Next]_vars

\* The lines a..b of ls are blank.
BlankRun(ls, a, b) == a <= b /\ \A k \in a..b : Trim(ls[k]) = <<>>

\* ls with its lines a..b replaced by the lines of mid.
WithRun(ls, a, b, mid) == SubSeq(ls, 1, a - 1) \o mid \o SubSeq(ls, b + 1, Len(ls))

-----------------------------------------------------------------------------
\* C37: the output for an input is also the output for the input with any
\* run of blank lines replaced by one empty line, and for the input with a
\* run of blank lines at its very start or at its very end deleted.
BlankRunLengthIgnored ==
    pc = "done" =>
        \A a \in 1..Len(lines) : \A b \in a..Len(lines) :
            BlankRun(lines, a, b) =>
                /\ Convert(JoinLines(WithRun(lines, a, b, << <<>> >>))) = result
                /\ (a = 1 \/ b = Len(lines)) =>
                      Convert(JoinLines(WithRun(lines, a, b, <<>>))) = result

\* A conversion has returned for an input with a run of two blank lines
\* between two list items and nothing else; the output is two lists of one
\* item.
BlankRunLengthIgnoredWitness ==
    /\ pc = "done"
    /\ lines = << <<"-", " ", "a">>, <<>>, <<" ">>, <<"-", " ", "a">> >>
    /\ result = <<"<", "u", "l", ">", "<", "l", "i", ">", "a", "<", "/", "l", "i", ">",
                  "<", "/", "u", "l", ">",
                  "<", "u", "l", ">", "<", "l", "i", ">", "a", "<", "/", "l", "i", ">",
                  "<", "/", "u", "l", ">">>

====
